---- MODULE Spec2Model ----
(***************************************************************************)
(* A model of the command handlers of the group-management bot: the        *)
(* per-chat state (context.chat_data), the handlers of bot/handlers/*.py   *)
(* cut at their await points where the chat state is read and written on   *)
(* both sides of an await (/warn), and the pure helpers they call          *)
(* (_get_target_user, _is_admin, parse_duration).                          *)
(*                                                                         *)
(* Text is a sequence of one-character strings.  A Python Optional[int]    *)
(* is the empty sequence (None) or a one-element sequence <<n>>.           *)
(*                                                                         *)
(* Left out: update.message.reply_text is taken to return (a reply that    *)
(* raises is not modelled); update.effective_chat and effective_user are   *)
(* present; int() and \d are read over ASCII digits, without "_" and       *)
(* without the digits of other scripts.  requests.get and                  *)
(* generate_content_async count as one request each (redirects and        *)
(* retries inside the libraries are not modelled).  A handler group fails *)
(* at its import or before its first add_handler; CommandHandler and      *)
(* Application.process_update follow python-telegram-bot, with every      *)
(* handler in the default group.                                          *)
(***************************************************************************)
EXTENDS Integers, Sequences, FiniteSets, TLC

VARIABLES chat_data, procs, left, call

vars == <<chat_data, procs, left, call>>

-----------------------------------------------------------------------------
(* Bounds of the model.                                                    *)

\* longest text enumerated exhaustively as an input of a pure helper
MaxLen == 3
\* updates delivered in one behaviour of the handler specification
MaxUpdates == 2
\* updates delivered in one behaviour of the /warn specification
MaxWarnUpdates == 3
\* handler invocations that may be in flight at once
NumProcs == 2

-----------------------------------------------------------------------------
(* Python values.                                                          *)

None == <<>>
Some(x) == <<x>>

Digits == {"0", "1", "2", "3", "4", "5", "6", "7", "8", "9"}

DigitVal(c) ==
  CASE c = "0" -> 0 [] c = "1" -> 1 [] c = "2" -> 2 [] c = "3" -> 3
    [] c = "4" -> 4 [] c = "5" -> 5 [] c = "6" -> 6 [] c = "7" -> 7
    [] c = "8" -> 8 [] c = "9" -> 9

\* the value of a non-empty run of decimal digits
RECURSIVE DecimalValue(_)
DecimalValue(ds) ==
  IF ds = <<>> THEN 0
  ELSE 10 * DecimalValue(SubSeq(ds, 1, Len(ds) - 1)) + DigitVal(ds[Len(ds)])

IsDigits(s) == Len(s) > 0 /\ \A i \in 1..Len(s) : s[i] \in Digits

\* int(s) for a whitespace-free token: an optional sign, then decimal
\* digits; anything else is a ValueError, modelled as None.
PyInt(s) ==
  IF IsDigits(s) THEN Some(DecimalValue(s))
  ELSE IF Len(s) > 1 /\ s[1] \in {"+", "-"} /\ IsDigits(Tail(s))
       THEN Some(IF s[1] = "-" THEN 0 - DecimalValue(Tail(s))
                               ELSE DecimalValue(Tail(s)))
       ELSE None

\* str.lstrip("@"): every leading "@" is removed
RECURSIVE LStripAt(_)
LStripAt(s) ==
  IF s # <<>> /\ Head(s) = "@" THEN LStripAt(Tail(s)) ELSE s

\* truthiness of an Optional[int]: None and 0 are falsy
Truthy(opt) == opt # None /\ opt[1] # 0

-----------------------------------------------------------------------------
(* Target resolution and the permission check.                             *)
(*                                                                         *)
(* An update is a record                                                   *)
(*   cmd        the command name                                           *)
(*   user       the id of the sender (update.effective_user.id)            *)
(*   status     what chat.get_member answers for the sender: a member      *)
(*              status, or "error" when the lookup raises                  *)
(*   reply      None, or <<r>> with r the replied-to message:              *)
(*              r.from_user is None or <<id>>, r.message_id its id         *)
(*   message_id the id of the command message                              *)
(*   args       the whitespace-separated tokens after the command:         *)
(*              args[1] is Python's text.split()[1]                        *)

\* _get_target_user with the first argument tried before the reply
GetTargetUser_args_first(upd) ==
  IF Len(upd.args) > 0 /\ PyInt(LStripAt(upd.args[1])) # None
  THEN PyInt(LStripAt(upd.args[1]))
  ELSE IF upd.reply # None /\ upd.reply[1].from_user # None
       THEN Some(upd.reply[1].from_user[1])
       ELSE None

\* moderation._get_target_user / admin._get_target_user
GetTargetUser(upd) ==
  IF upd.reply # None /\ upd.reply[1].from_user # None
  THEN Some(upd.reply[1].from_user[1])
  ELSE IF Len(upd.args) > 0
       THEN PyInt(LStripAt(upd.args[1]))
       ELSE None

\* chat.get_member(user).status in ("administrator", "creator"); the
\* lookup raising is status "error"
StatusIsAdmin(status) == status \in {"administrator", "creator"}

\* moderation._is_admin, admin._is_admin, toggles._is_admin,
\* security._is_admin: the lookup is inside try/except, which answers False
IsAdmin(upd) ==
  IF upd.status = "error" THEN FALSE ELSE StatusIsAdmin(upd.status)

-----------------------------------------------------------------------------
(* parse_duration and datetime.timedelta.                                  *)
(*                                                                         *)
(* Python computes total_seconds as an unbounded int and timedelta         *)
(* normalises it to (days, seconds) with 0 <= seconds < 86400 and          *)
(* |days| <= 999999999, raising OverflowError outside that range.  The     *)
(* model keeps the unbounded total in the same mixed radix, so that the    *)
(* totals that overflow a timedelta or a datetime stay within TLC's        *)
(* integers.                                                               *)

SecondsPerDay == 86400
TimedeltaMaxDays == 999999999
\* date.max.toordinal(): the last day a datetime can hold
MaxOrdinal == 3652059

Units == {"s", "m", "h", "d", "w"}

\* str.lower() of one character: the ASCII capitals, everything else as is
LowerChar(c) ==
  CASE c = "A" -> "a" [] c = "B" -> "b" [] c = "C" -> "c" [] c = "D" -> "d"
    [] c = "E" -> "e" [] c = "F" -> "f" [] c = "G" -> "g" [] c = "H" -> "h"
    [] c = "I" -> "i" [] c = "J" -> "j" [] c = "K" -> "k" [] c = "L" -> "l"
    [] c = "M" -> "m" [] c = "N" -> "n" [] c = "O" -> "o" [] c = "P" -> "p"
    [] c = "Q" -> "q" [] c = "R" -> "r" [] c = "S" -> "s" [] c = "T" -> "t"
    [] c = "U" -> "u" [] c = "V" -> "v" [] c = "W" -> "w" [] c = "X" -> "x"
    [] c = "Y" -> "y" [] c = "Z" -> "z"
    [] OTHER -> c

\* [smhdw] under re.IGNORECASE
IsUnitChar(c) == LowerChar(c) \in Units

\* the first index >= i of s that holds no digit (Len(s) + 1 if none)
RECURSIVE RunEnd(_, _)
RunEnd(s, i) ==
  IF i <= Len(s) /\ s[i] \in Digits THEN RunEnd(s, i + 1) ELSE i

\* where a match of (\d+)([smhdw]) that starts at i ends, 0 if none starts
\* at i: \d+ is greedy and what follows a shorter run is a digit, so the
\* match is the whole run of digits and the unit right after it
MatchEnd(s, i) ==
  IF i <= Len(s) /\ s[i] \in Digits
  THEN LET j == RunEnd(s, i)
       IN  IF j <= Len(s) /\ IsUnitChar(s[j]) THEN j ELSE 0
  ELSE 0

\* pattern.findall(s): the non-overlapping matches, leftmost first, each
\* as (value_str, unit)
RECURSIVE FindAll(_, _)
FindAll(s, i) ==
  IF i > Len(s) THEN <<>>
  ELSE LET j == MatchEnd(s, i)
       IN  IF j > 0
           THEN <<[value_str |-> SubSeq(s, i, j - 1), unit |-> s[j]]>>
                  \o FindAll(s, j + 1)
           ELSE FindAll(s, i + 1)

\* UnitSeconds with the hour taken for a minute
UnitSeconds_hour_as_minute(unit) ==
  CASE unit = "s" -> 1 [] unit = "m" -> 60 [] unit = "h" -> 60
    [] unit = "d" -> 86400 [] unit = "w" -> 604800 [] OTHER -> 0

\* the seconds of one unit, as in the if/elif chain
UnitSeconds(unit) ==
  CASE unit = "s" -> 1 [] unit = "m" -> 60 [] unit = "h" -> 3600
    [] unit = "d" -> 86400 [] unit = "w" -> 604800 [] OTHER -> 0

\* a non-negative integer number of seconds, in mixed radix
Total(days, seconds) == [days |-> days, seconds |-> seconds]

Normalize(t) ==
  Total(t.days + (t.seconds \div SecondsPerDay), t.seconds % SecondsPerDay)

\* value * usecs seconds, for usecs a unit of UnitSeconds
Scaled(value, usecs) ==
  IF usecs = 0 THEN Total(0, 0)
  ELSE IF usecs >= SecondsPerDay
       THEN Total(value * (usecs \div SecondsPerDay), 0)
       ELSE LET perDay == SecondsPerDay \div usecs
            IN  Total(value \div perDay, (value % perDay) * usecs)

Plus(a, b) == Normalize(Total(a.days + b.days, a.seconds + b.seconds))

\* the loop "for value_str, unit in matches: total_seconds += ..."
RECURSIVE SumMatches(_)
SumMatches(matches) ==
  IF matches = <<>> THEN Total(0, 0)
  ELSE LET m == matches[Len(matches)]
       IN  Plus(SumMatches(SubSeq(matches, 1, Len(matches) - 1)),
                Scaled(DecimalValue(m.value_str), UnitSeconds(LowerChar(m.unit))))

\* timedelta(seconds=total): the value, or OverflowError
Timedelta(total) ==
  IF total.days > TimedeltaMaxDays
  THEN [raises |-> TRUE, days |-> 0, seconds |-> 0]
  ELSE [raises |-> FALSE, days |-> total.days, seconds |-> total.seconds]

\* helpers.parse_duration
parse_duration(duration_str) ==
  LET matches == FindAll(duration_str, 1)
  IN  IF matches = <<>> THEN Timedelta(Total(0, 0))
      ELSE Timedelta(SumMatches(matches))


-----------------------------------------------------------------------------
(* The per-chat store (context.chat_data) and Python dicts: functions      *)
(* whose domain is the set of keys present.                                *)

EmptyDict == [k \in {} |-> 0]

Has(d, k) == k \in DOMAIN d

\* d.get(k, default)
Get(d, k, default) == IF Has(d, k) THEN d[k] ELSE default

\* d[k] = v
Put(d, k, v) == [x \in DOMAIN d \cup {k} |-> IF x = k THEN v ELSE d[x]]

\* d.setdefault(k, v), as the store it leaves
SetDefault(d, k, v) == IF Has(d, k) THEN d ELSE Put(d, k, v)

\* the warning count of a user, 0 when the store or the entry is absent
WarnCount(cd, id) == Get(Get(cd, "warnings", EmptyDict), id, 0)

\* the bank balance of a user, 0 when the store or the entry is absent
Balance(cd, id) == Get(Get(cd, "bank", EmptyDict), id, 0)

-----------------------------------------------------------------------------
(* What a handler does that can be seen from outside: the replies it       *)
(* sends, the calls it makes on the platform, whether an exception left    *)
(* it, and the chat store it leaves.                                       *)

Reply(text) == [text |-> text, arg |-> <<>>]
ReplyN(text, n) == [text |-> text, arg |-> <<n>>]

PlatformCall(op, id, ok, arg) == [op |-> op, id |-> id, ok |-> ok, arg |-> arg]

Out(replies, calls, raised, cd) ==
  [replies |-> replies, calls |-> calls, raised |-> raised, cd |-> cd]

\* the calls made when ops are tried in order inside one try block and the
\* call numbered fails raises (0: none raises)
Calls(ops, id, fails) ==
  [i \in 1..(IF fails = 0 THEN Len(ops) ELSE fails) |->
     PlatformCall(ops[i], id, i # fails, <<>>)]

ModDenied == "You must be an admin to use this command."

-----------------------------------------------------------------------------
(* bot/handlers/moderation.py and bot/handlers/admin.py                    *)

\* the shape shared by ban, unban, kick, unmute, promote and demote:
\* permission check, target resolution, the platform calls in one try
Moderate(upd, cd, fails, ops, prompt, done, failed) ==
  IF ~IsAdmin(upd)
  THEN Out(<<Reply(ModDenied)>>, <<>>, FALSE, cd)
  ELSE LET target_id == GetTargetUser(upd)
       IN  IF ~Truthy(target_id)
           THEN Out(<<Reply(prompt)>>, <<>>, FALSE, cd)
           ELSE Out(<<Reply(IF fails = 0 THEN done ELSE failed)>>,
                    Calls(ops, target_id[1], fails), FALSE, cd)

ban(upd, cd, fails) ==
  Moderate(upd, cd, fails, <<"ban_chat_member">>,
           "Please specify a user to ban (reply or mention).",
           "User has been banned.",
           "Failed to ban user. Do I have sufficient rights?")

unban(upd, cd, fails) ==
  Moderate(upd, cd, fails, <<"unban_chat_member">>,
           "Please specify a user to unban (reply or mention).",
           "User has been unbanned.",
           "Failed to unban user. Do I have sufficient rights?")

kick(upd, cd, fails) ==
  Moderate(upd, cd, fails, <<"ban_chat_member", "unban_chat_member">>,
           "Please specify a user to kick (reply or mention).",
           "User has been kicked.",
           "Failed to kick user. Do I have sufficient rights?")

unmute(upd, cd, fails) ==
  Moderate(upd, cd, fails, <<"restrict_chat_member">>,
           "Please specify a user to unmute (reply or mention).",
           "User has been unmuted.",
           "Failed to unmute user. Do I have sufficient rights?")

promote(upd, cd, fails) ==
  Moderate(upd, cd, fails, <<"promote_chat_member">>,
           "Please specify a user to promote (reply or mention).",
           "User has been promoted to admin.",
           "Failed to promote user. Do I have sufficient rights?")

demote(upd, cd, fails) ==
  Moderate(upd, cd, fails, <<"promote_chat_member">>,
           "Please specify a user to demote (reply or mention).",
           "User has been demoted.",
           "Failed to demote user. Do I have sufficient rights?")

\* timedelta(weeks=1000)
PermanentWeeks == 1000
Permanent == [raises |-> FALSE, days |-> 7 * PermanentWeeks, seconds |-> 0]

\* delta.total_seconds() > 0
Positive(delta) == delta.days > 0 \/ delta.seconds > 0

\* the duration /mute picks: the default, replaced by the parsed third
\* token when there is one and it is positive; raises when parsing does
MuteDuration(args) ==
  IF Len(args) > 1
  THEN LET delta == parse_duration(args[2])
       IN  IF delta.raises THEN delta
           ELSE IF Positive(delta) THEN delta ELSE Permanent
  ELSE Permanent

\* datetime.utcnow() + duration raises OverflowError past date.max
UntilOverflows(now, duration) ==
  now.ordinal + duration.days
    + ((now.second + duration.seconds) \div SecondsPerDay) > MaxOrdinal

\* duration.total_seconds() < 60 * 60 * 24 * 365
LessThanAYear(duration) == duration.days < 365

mute(upd, cd, fails, now) ==
  IF ~IsAdmin(upd)
  THEN Out(<<Reply(ModDenied)>>, <<>>, FALSE, cd)
  ELSE LET target_id == GetTargetUser(upd)
       IN  IF ~Truthy(target_id)
           THEN Out(<<Reply("Please specify a user to mute (reply or mention).")>>,
                    <<>>, FALSE, cd)
           ELSE LET duration == MuteDuration(upd.args)
                IN  IF duration.raises \/ UntilOverflows(now, duration)
                    THEN Out(<<>>, <<>>, TRUE, cd)
                    ELSE LET c == PlatformCall("restrict_chat_member", target_id[1],
                                               fails = 0,
                                               <<duration.days, duration.seconds>>)
                         IN  IF fails # 0
                             THEN Out(<<Reply("Failed to mute user. Do I have sufficient rights?")>>,
                                      <<c>>, FALSE, cd)
                             ELSE IF LessThanAYear(duration)
                                  THEN Out(<<[text |-> "User has been muted. Mute duration: %s.",
                                              arg |-> <<duration.days, duration.seconds>>]>>,
                                           <<c>>, FALSE, cd)
                                  ELSE Out(<<Reply("User has been muted.")>>, <<c>>, FALSE, cd)


\* "if count >= 3"
WarnLimit == 3

(* /warn suspends at get_member, at the reply that announces the count,   *)
(* at the ban, at the unban and at the last reply.  A handler in flight   *)
(* is a record pr: its update, its pc (the await it is suspended at), its *)
(* locals target_id and count, and what it has sent so far.  Each         *)
(* operator below is the code between two awaits: it takes the handler    *)
(* and the chat store and gives [pr, cd] as the code leaves them.         *)

Sent(pr, reply) == [pr EXCEPT !.replies = Append(@, reply)]
Finished(pr) == [pr EXCEPT !.pc = "done"]

\* chat_data[target_id] = value, chat_data being the "warnings" dict
SetWarnCount(cd, id, value) ==
  Put(cd, "warnings", Put(Get(cd, "warnings", EmptyDict), id, value))

\* warn_checked with the write of the count left for a later step
warn_checked_write_later(pr, cd) ==
  IF ~IsAdmin(pr.upd)
  THEN [pr |-> Finished(Sent(pr, Reply(ModDenied))), cd |-> cd]
  ELSE LET target_id == GetTargetUser(pr.upd)
       IN  IF ~Truthy(target_id)
           THEN [pr |-> Finished(Sent(pr,
                          Reply("Please specify a user to warn (reply or mention)."))),
                 cd |-> cd]
           ELSE LET count == WarnCount(cd, target_id[1]) + 1
                IN  [pr |-> [Sent(pr, ReplyN("User has been warned (%d/3).", count))
                               EXCEPT !.pc = "reply_warned",
                                      !.target_id = target_id,
                                      !.count = count],
                     cd |-> cd]

\* warn, from the answer of get_member to the await of the first reply
warn_checked(pr, cd) ==
  IF ~IsAdmin(pr.upd)
  THEN [pr |-> Finished(Sent(pr, Reply(ModDenied))), cd |-> cd]
  ELSE LET target_id == GetTargetUser(pr.upd)
       IN  IF ~Truthy(target_id)
           THEN [pr |-> Finished(Sent(pr,
                          Reply("Please specify a user to warn (reply or mention)."))),
                 cd |-> cd]
           ELSE LET count == WarnCount(cd, target_id[1]) + 1
                IN  [pr |-> [Sent(pr, ReplyN("User has been warned (%d/3).", count))
                               EXCEPT !.pc = "reply_warned",
                                      !.target_id = target_id,
                                      !.count = count],
                     cd |-> SetWarnCount(cd, target_id[1], count)]

\* warn, after the first reply: "if count >= 3" enters the try and awaits
\* the ban
warn_replied(pr) ==
  IF pr.count >= WarnLimit THEN [pr EXCEPT !.pc = "ban"] ELSE Finished(pr)

\* warn, when ban_chat_member returns or raises
warn_banned(pr, ok) ==
  LET c == PlatformCall("ban_chat_member", pr.target_id[1], ok, <<>>)
  IN  IF ok THEN [pr EXCEPT !.calls = Append(@, c), !.pc = "unban"]
      ELSE Finished([pr EXCEPT !.calls = Append(@, c)])

\* warn_unbanned without the reset of the count
warn_unbanned_keeps_count(pr, cd, ok) ==
  LET c == PlatformCall("unban_chat_member", pr.target_id[1], ok, <<>>)
      q == [pr EXCEPT !.calls = Append(@, c)]
  IN  IF ok
      THEN [pr |-> Finished(Sent(q,
                     Reply("User has been kicked due to excessive warnings."))),
            cd |-> cd]
      ELSE [pr |-> Finished(q), cd |-> cd]

\* warn_unbanned without the reply that follows the kick
warn_unbanned_silent(pr, cd, ok) ==
  LET c == PlatformCall("unban_chat_member", pr.target_id[1], ok, <<>>)
      q == [pr EXCEPT !.calls = Append(@, c)]
  IN  IF ok
      THEN [pr |-> Finished(q), cd |-> SetWarnCount(cd, pr.target_id[1], 0)]
      ELSE [pr |-> Finished(q), cd |-> cd]

\* warn, when unban_chat_member returns or raises: the reset and the
\* last reply
warn_unbanned(pr, cd, ok) ==
  LET c == PlatformCall("unban_chat_member", pr.target_id[1], ok, <<>>)
      q == [pr EXCEPT !.calls = Append(@, c)]
  IN  IF ok
      THEN [pr |-> Finished(Sent(q,
                     Reply("User has been kicked due to excessive warnings."))),
            cd |-> SetWarnCount(cd, pr.target_id[1], 0)]
      ELSE [pr |-> Finished(q), cd |-> cd]

\* unwarn_checked without the test "> 0"
unwarn_checked_no_floor(pr, cd) ==
  IF ~IsAdmin(pr.upd)
  THEN [pr |-> Finished(Sent(pr, Reply(ModDenied))), cd |-> cd]
  ELSE LET target_id == GetTargetUser(pr.upd)
       IN  IF ~Truthy(target_id)
           THEN [pr |-> Finished(Sent(pr,
                          Reply("Please specify a user to unwarn (reply or mention)."))),
                 cd |-> cd]
           ELSE LET cd1 == SetDefault(cd, "warnings", EmptyDict)
                    n == WarnCount(cd1, target_id[1]) - 1
                IN  [pr |-> Finished([Sent(pr,
                               ReplyN("Removed a warning. Total warnings: %d.", n))
                               EXCEPT !.target_id = target_id]),
                     cd |-> SetWarnCount(cd1, target_id[1], n)]

\* unwarn, from the answer of get_member on
unwarn_checked(pr, cd) ==
  IF ~IsAdmin(pr.upd)
  THEN [pr |-> Finished(Sent(pr, Reply(ModDenied))), cd |-> cd]
  ELSE LET target_id == GetTargetUser(pr.upd)
       IN  IF ~Truthy(target_id)
           THEN [pr |-> Finished(Sent(pr,
                          Reply("Please specify a user to unwarn (reply or mention)."))),
                 cd |-> cd]
           ELSE LET cd1 == SetDefault(cd, "warnings", EmptyDict)
                IN  IF WarnCount(cd1, target_id[1]) > 0
                    THEN LET n == WarnCount(cd1, target_id[1]) - 1
                         IN  [pr |-> Finished([Sent(pr,
                                        ReplyN("Removed a warning. Total warnings: %d.", n))
                                        EXCEPT !.target_id = target_id]),
                              cd |-> SetWarnCount(cd1, target_id[1], n)]
                    ELSE [pr |-> Finished([Sent(pr, Reply("That user has no warnings."))
                                             EXCEPT !.target_id = target_id]),
                          cd |-> cd1]

\* a handler as it starts: nothing sent yet
Started(upd, pc) ==
  [pc |-> pc, upd |-> upd, replies |-> <<>>, calls |-> <<>>,
   raised |-> FALSE, target_id |-> None, count |-> 0, alone |-> TRUE]

OutOf(res) == Out(res.pr.replies, res.pr.calls, res.pr.raised, res.cd)

\* warn run from its start to its end with no other handler in between;
\* the platform call numbered fails raises (0: none)
warn(upd, cd, fails) ==
  LET r1 == warn_checked(Started(upd, "get_member"), cd)
      p2 == warn_replied(r1.pr)
      p3 == warn_banned(p2, fails # 1)
  IN  IF r1.pr.pc = "done" THEN OutOf(r1)
      ELSE IF p2.pc = "done" THEN OutOf([pr |-> p2, cd |-> r1.cd])
      ELSE IF p3.pc = "done" THEN OutOf([pr |-> p3, cd |-> r1.cd])
      ELSE OutOf(warn_unbanned(p3, r1.cd, fails # 2))

unwarn(upd, cd) == OutOf(unwarn_checked(Started(upd, "get_member"), cd))


-----------------------------------------------------------------------------
(* bot/handlers/group.py                                                   *)

\* pin, unpin and purge look the sender up outside any try: the lookup
\* raising leaves the handler
GroupGate(upd, cd, denied, rest) ==
  IF upd.status = "error" THEN Out(<<>>, <<>>, TRUE, cd)
  ELSE IF ~StatusIsAdmin(upd.status) THEN Out(<<Reply(denied)>>, <<>>, FALSE, cd)
  ELSE rest

pin(upd, cd, fails) ==
  GroupGate(upd, cd, "You must be an admin to pin messages.",
    IF upd.reply = None
    THEN Out(<<Reply("Reply to a message you want to pin.")>>, <<>>, FALSE, cd)
    ELSE Out(<<Reply(IF fails = 0 THEN "Message pinned."
                     ELSE "Failed to pin message. Do I have sufficient rights?")>>,
             Calls(<<"pin_chat_message">>, upd.reply[1].message_id, fails),
             FALSE, cd))

unpin(upd, cd, fails) ==
  GroupGate(upd, cd, "You must be an admin to unpin messages.",
    LET msg_id == IF upd.reply # None THEN Some(upd.reply[1].message_id) ELSE None
    IN  Out(<<Reply(IF fails = 0 THEN "Message(s) unpinned."
                    ELSE "Failed to unpin message.")>>,
            IF Truthy(msg_id)
            THEN Calls(<<"unpin_chat_message">>, msg_id[1], fails)
            ELSE Calls(<<"unpin_all_chat_messages">>, 0, fails),
            FALSE, cd))

\* purge: one delete per id of range(from_id, to_id + 1), the deletes that
\* raise (failed) are passed over, then one send_message
purge(upd, cd, failed, fails) ==
  GroupGate(upd, cd, "You must be an admin to purge messages.",
    IF upd.reply = None
    THEN Out(<<Reply("Reply to a message to purge from that message up to the current one.")>>,
             <<>>, FALSE, cd)
    ELSE LET from_id == upd.reply[1].message_id
             to_id == upd.message_id
             deletes == [i \in 1..(IF to_id >= from_id THEN to_id + 1 - from_id ELSE 0) |->
                           PlatformCall("delete_message", from_id + i - 1,
                                        (from_id + i - 1) \notin failed, <<>>)]
             send == PlatformCall("send_message", 0, fails = 0, <<>>)
         IN  Out(IF fails = 0 THEN <<>> ELSE <<Reply("Failed to purge messages.")>>,
                 Append(deletes, send), FALSE, cd))

\* html.escape(text): & < > " ' are replaced
EscapeChar(c) ==
  CASE c = "&" -> <<"&", "a", "m", "p", ";">>
    [] c = "<" -> <<"&", "l", "t", ";">>
    [] c = ">" -> <<"&", "g", "t", ";">>
    [] c = "\"" -> <<"&", "q", "u", "o", "t", ";">>
    [] c = "'" -> <<"&", "#", "x", "2", "7", ";">>
    [] OTHER -> <<c>>

RECURSIVE escape_html(_)
escape_html(text) ==
  IF text = <<>> THEN <<>> ELSE EscapeChar(Head(text)) \o escape_html(Tail(text))

\* setwelcome and setrules take the text after the command (upd.rest, None
\* when the message is the command alone) and look nobody up
setwelcome(upd, cd) ==
  IF upd.rest = None
  THEN Out(<<Reply("Usage: /setwelcome Your welcome message here.")>>, <<>>, FALSE, cd)
  ELSE Out(<<Reply("Welcome message set.")>>, <<>>, FALSE,
           Put(cd, "welcome_message", upd.rest[1]))

setrules(upd, cd) ==
  IF upd.rest = None
  THEN Out(<<Reply("Usage: /setrules The rules of this group.")>>, <<>>, FALSE, cd)
  ELSE Out(<<Reply("Rules have been updated.")>>, <<>>, FALSE,
           Put(cd, "rules", escape_html(upd.rest[1])))


-----------------------------------------------------------------------------
(* bot/handlers/toggles.py and bot/handlers/security.py                    *)

enable(upd, cd) ==
  IF ~IsAdmin(upd)
  THEN Out(<<Reply("Only administrators can enable the bot.")>>, <<>>, FALSE, cd)
  ELSE Out(<<Reply("Bot is now enabled in this chat.")>>, <<>>, FALSE,
           Put(cd, "enabled", TRUE))

disable(upd, cd) ==
  IF ~IsAdmin(upd)
  THEN Out(<<Reply("Only administrators can disable the bot.")>>, <<>>, FALSE, cd)
  ELSE Out(<<Reply("Bot is now disabled in this chat.")>>, <<>>, FALSE,
           Put(cd, "enabled", FALSE))

\* silent and debug flip their flag
Toggle(upd, cd, key, denied, on, off) ==
  IF ~IsAdmin(upd)
  THEN Out(<<Reply(denied)>>, <<>>, FALSE, cd)
  ELSE LET current == Get(cd, key, FALSE)
       IN  Out(<<Reply(IF ~current THEN on ELSE off)>>, <<>>, FALSE,
               Put(cd, key, ~current))

silent(upd, cd) ==
  Toggle(upd, cd, "silent", "Only administrators can toggle silent mode.",
         "Silent mode is now enabled.", "Silent mode is now disabled.")

debug(upd, cd) ==
  Toggle(upd, cd, "debug", "Only administrators can toggle debug mode.",
         "Debug mode is now enabled.", "Debug mode is now disabled.")

\* t.lower() of a token
Lower(t) == [i \in 1..Len(t) |-> LowerChar(t[i])]

\* the set of lowered tokens of parts[1:]
LoweredTypes(args) == {Lower(args[i]) : i \in 1..Len(args)}

\* the replies of lock and unlock list the locked types; the model keeps
\* the set they list
LockedReply(locks) == [text |-> "Locked types: %s", arg |-> <<>>, types |-> locks]

\* lock without t.lower()
lock_as_typed(upd, cd) ==
  IF ~IsAdmin(upd)
  THEN Out(<<Reply("Only administrators can lock content types.")>>, <<>>, FALSE, cd)
  ELSE IF Len(upd.args) < 1
  THEN Out(<<Reply("Usage: /lock <type> [type...] (e.g., media links gifs)")>>,
           <<>>, FALSE, cd)
  ELSE LET locks == Get(cd, "locks", {}) \cup {upd.args[i] : i \in 1..Len(upd.args)}
       IN  Out(<<LockedReply(locks)>>, <<>>, FALSE, Put(cd, "locks", locks))

lock(upd, cd) ==
  IF ~IsAdmin(upd)
  THEN Out(<<Reply("Only administrators can lock content types.")>>, <<>>, FALSE, cd)
  ELSE IF Len(upd.args) < 1
  THEN Out(<<Reply("Usage: /lock <type> [type...] (e.g., media links gifs)")>>,
           <<>>, FALSE, cd)
  ELSE LET locks == Get(cd, "locks", {}) \cup LoweredTypes(upd.args)
       IN  Out(<<LockedReply(locks)>>, <<>>, FALSE, Put(cd, "locks", locks))

unlock(upd, cd) ==
  IF ~IsAdmin(upd)
  THEN Out(<<Reply("Only administrators can unlock content types.")>>, <<>>, FALSE, cd)
  ELSE IF Len(upd.args) < 1
  THEN Out(<<Reply("Usage: /unlock <type> [type...] (e.g., media links gifs)")>>,
           <<>>, FALSE, cd)
  ELSE LET locks == Get(cd, "locks", {}) \ LoweredTypes(upd.args)
       IN  Out(<<LockedReply(locks)>>, <<>>, FALSE, Put(cd, "locks", locks))

-----------------------------------------------------------------------------
(* bot/handlers/games.py: the bank                                         *)

balance(upd, cd) ==
  LET cd1 == SetDefault(cd, "bank", EmptyDict)
  IN  Out(<<ReplyN("Your balance: %d coins", Balance(cd1, upd.user))>>,
          <<>>, FALSE, cd1)

\* give without the test of the sender's balance
give_unchecked(upd, cd) ==
  IF Len(upd.args) < 2
  THEN Out(<<Reply("Usage: /give <user_id> <amount>")>>, <<>>, FALSE, cd)
  ELSE LET target_id == PyInt(upd.args[1])
           amount == PyInt(upd.args[2])
       IN  IF target_id = None \/ amount = None \/ amount[1] <= 0
           THEN Out(<<Reply("Invalid usage. Amount must be a positive integer.")>>,
                    <<>>, FALSE, cd)
           ELSE LET cd1 == SetDefault(cd, "bank", EmptyDict)
                    sender_id == upd.user
                    sender_bal == Balance(cd1, sender_id)
                    bank1 == Put(cd1["bank"], sender_id, sender_bal - amount[1])
                    bank2 == Put(bank1, target_id[1],
                                 Get(bank1, target_id[1], 0) + amount[1])
                IN  Out(<<[text |-> "Transferred %d coins to %d.",
                           arg |-> <<amount[1], target_id[1]>>]>>,
                        <<>>, FALSE, Put(cd1, "bank", bank2))

\* give that credits the target without debiting the sender
give_no_debit(upd, cd) ==
  IF Len(upd.args) < 2
  THEN Out(<<Reply("Usage: /give <user_id> <amount>")>>, <<>>, FALSE, cd)
  ELSE LET target_id == PyInt(upd.args[1])
           amount == PyInt(upd.args[2])
       IN  IF target_id = None \/ amount = None \/ amount[1] <= 0
           THEN Out(<<Reply("Invalid usage. Amount must be a positive integer.")>>,
                    <<>>, FALSE, cd)
           ELSE LET cd1 == SetDefault(cd, "bank", EmptyDict)
                    sender_id == upd.user
                    sender_bal == Balance(cd1, sender_id)
                IN  IF sender_bal < amount[1]
                    THEN Out(<<Reply("Insufficient funds.")>>, <<>>, FALSE, cd1)
                    ELSE LET bank2 == Put(cd1["bank"], target_id[1],
                                          Get(cd1["bank"], target_id[1], 0) + amount[1])
                         IN  Out(<<[text |-> "Transferred %d coins to %d.",
                                    arg |-> <<amount[1], target_id[1]>>]>>,
                                 <<>>, FALSE, Put(cd1, "bank", bank2))

give(upd, cd) ==
  IF Len(upd.args) < 2
  THEN Out(<<Reply("Usage: /give <user_id> <amount>")>>, <<>>, FALSE, cd)
  ELSE LET target_id == PyInt(upd.args[1])
           amount == PyInt(upd.args[2])
       IN  IF target_id = None \/ amount = None \/ amount[1] <= 0
           THEN Out(<<Reply("Invalid usage. Amount must be a positive integer.")>>,
                    <<>>, FALSE, cd)
           ELSE LET cd1 == SetDefault(cd, "bank", EmptyDict)
                    sender_id == upd.user
                    sender_bal == Balance(cd1, sender_id)
                IN  IF sender_bal < amount[1]
                    THEN Out(<<Reply("Insufficient funds.")>>, <<>>, FALSE, cd1)
                    ELSE LET bank1 == Put(cd1["bank"], sender_id, sender_bal - amount[1])
                             bank2 == Put(bank1, target_id[1],
                                          Get(bank1, target_id[1], 0) + amount[1])
                         IN  Out(<<[text |-> "Transferred %d coins to %d.",
                                    arg |-> <<amount[1], target_id[1]>>]>>,
                                 <<>>, FALSE, Put(cd1, "bank", bank2))


\* games.py: the quiz.  questions[k] is (q, a)
Questions ==
  << [q |-> "What is the capital of France?", a |-> <<"p", "a", "r", "i", "s">>],
     [q |-> "Who wrote '1984'?",
      a |-> <<"g", "e", "o", "r", "g", "e", " ", "o", "r", "w", "e", "l", "l">>],
     [q |-> "What is 5 + 7?", a |-> <<"1", "2">>] >>

\* quiz, with random.choice picking questions[k]
quiz(upd, cd, k) ==
  Out(<<[text |-> "Quiz: %s\nReply with /answer <your answer>",
         arg |-> <<Questions[k].q>>]>>,
      <<>>, FALSE, Put(cd, "quiz_answer", Questions[k].a))

\* str.strip() over spaces
RECURSIVE LStrip(_)
LStrip(t) == IF t # <<>> /\ Head(t) = " " THEN LStrip(Tail(t)) ELSE t

RECURSIVE RStrip(_)
RStrip(t) ==
  IF t # <<>> /\ t[Len(t)] = " " THEN RStrip(SubSeq(t, 1, Len(t) - 1)) ELSE t

Strip(t) == LStrip(RStrip(t))

\* dict.pop(k, None): the dict without k
Pop(d, k) == [x \in DOMAIN d \ {k} |-> d[x]]

\* answer without the pop: the pending answer is read and kept
answer_keeps_pending(upd, cd) ==
  IF upd.rest = None
  THEN Out(<<Reply("Usage: /answer <your answer>")>>, <<>>, FALSE, cd)
  ELSE IF ~Has(cd, "quiz_answer")
  THEN Out(<<Reply("No quiz in progress. Use /quiz to start one.")>>, <<>>, FALSE, cd)
  ELSE LET expected == cd["quiz_answer"]
       IN  IF Lower(Strip(upd.rest[1])) = expected
           THEN Out(<<Reply("Correct!")>>, <<>>, FALSE, cd)
           ELSE Out(<<[text |-> "Wrong. The correct answer was: %s",
                       arg |-> <<expected>>]>>, <<>>, FALSE, cd)

\* answer: parts = text.split(None, 1); upd.rest is parts[1], None when
\* len(parts) < 2
answer(upd, cd) ==
  IF upd.rest = None
  THEN Out(<<Reply("Usage: /answer <your answer>")>>, <<>>, FALSE, cd)
  ELSE IF ~Has(cd, "quiz_answer")
  THEN Out(<<Reply("No quiz in progress. Use /quiz to start one.")>>, <<>>, FALSE, cd)
  ELSE LET expected == cd["quiz_answer"]
           cd1 == Pop(cd, "quiz_answer")
       IN  IF Lower(Strip(upd.rest[1])) = expected
           THEN Out(<<Reply("Correct!")>>, <<>>, FALSE, cd1)
           ELSE Out(<<[text |-> "Wrong. The correct answer was: %s",
                       arg |-> <<expected>>]>>, <<>>, FALSE, cd1)

-----------------------------------------------------------------------------
(* Updates: what the platform delivers.                                    *)

RECURSIVE JoinSpace(_)
JoinSpace(args) ==
  IF Len(args) = 0 THEN <<>>
  ELSE IF Len(args) = 1 THEN args[1]
  ELSE args[1] \o <<" ">> \o JoinSpace(Tail(args))

\* rest is text.split(None, 1)[1], None when the text is the command alone
Update(cmd, user, status, reply, args) ==
  [cmd |-> cmd, user |-> user, status |-> status, reply |-> reply,
   message_id |-> 2, args |-> args,
   rest |-> IF args = <<>> THEN None ELSE Some(JoinSpace(args))]

Statuses == {"creator", "administrator", "member", "error"}

\* the command is no reply, or a reply to message 1, written by user 22
Authored == Some([from_user |-> Some(22), message_id |-> 1])
\* a replied-to message without from_user
Authorless == Some([from_user |-> None, message_id |-> 1])

TargetArgs == {<<>>, << <<"0">> >>, << <<"7">> >>, << <<"x">> >>}

DurationArgs ==
  { <<"5", "m">>, <<"0", "m">>, <<"x", "y", "z">>, <<"2", "h", "3", "0", "m">>,
    <<"4", "0", "0", "d">>,
    <<"9", "9", "9", "9", "9", "9", "9", "d">>,
    <<"1", "0", "0", "0", "0", "0", "0", "0", "0", "0", "d">> }

MuteArgs ==
  TargetArgs \cup {<< <<"7">>, d >> : d \in DurationArgs}
             \cup {<< <<"x">>, <<"5", "m">> >>, << <<"5", "m">> >>}

LockArgs ==
  {<<>>, << <<"m", "e", "d", "i", "a">> >>, << <<"M", "E", "D", "I", "A">> >>,
   << <<"l", "i", "n", "k", "s">>, <<"m", "e", "d", "i", "a">> >>}

TextArgs == {<<>>, << <<"o", "k">> >>, << <<"<", "b", ">">>, <<"&">> >>}

\* datetime.utcnow(): the day (date.toordinal()) and the second of the day;
\* 739925 is 2026-11-05
Clocks == {[ordinal |-> 739925, second |-> 43200]}

\* the denial does not read the target: every way to name a target is
\* tried for an administrator, one for the other senders
TargetUpdates(cmd) ==
  {Update(cmd, 11, "administrator", r, a) : r \in {None, Authored}, a \in TargetArgs}
    \cup {Update(cmd, 11, st, None, a) :
            st \in {"creator", "member", "error"}, a \in {<<>>, << <<"7">> >>}}

MuteUpdates ==
  {Update("mute", 11, "administrator", r, a) : r \in {None, Authored}, a \in MuteArgs}
    \cup {Update("mute", 11, st, None, << <<"7">>, <<"5", "m">> >>) :
            st \in {"creator", "member", "error"}}

GroupUpdates(cmd) ==
  {Update(cmd, 11, st, r, <<>>) : st \in Statuses, r \in {None, Authored}}

ArgUpdates(cmd, argsets) ==
  {Update(cmd, 11, st, None, a) : st \in Statuses, a \in argsets}

\* /warn and /unwarn where handlers overlap: the target is user 22 (by
\* reply), user 7 (by id) or missing
WarnUpdates(cmd) ==
  {Update(cmd, 11, st, None, <<>>) : st \in {"administrator", "member"}}
    \cup {Update(cmd, 11, "administrator", r, a) :
            r \in {None, Authored}, a \in {<<>>, << <<"7">> >>}}

-----------------------------------------------------------------------------
(* The state: the chat store, the handler invocations (procs[p]), the      *)
(* number of updates still to be delivered, and the call of a pure helper  *)
(* under test.                                                             *)

NoUpdate == Update("", 0, "member", None, <<>>)

IdleProc == Started(NoUpdate, "idle")

Procs == 1..MaxWarnUpdates

NoCall == [fn |-> "", arg |-> <<>>, returned |-> FALSE, ret |-> <<>>]

InFlight(p) == procs[p].pc \notin {"idle", "done"}

Init ==
  /\ chat_data = EmptyDict
  /\ procs = [p \in Procs |-> IdleProc]
  /\ left = MaxUpdates
  /\ call = NoCall

\* an update is handed to its handler, which runs up to its first await
Deliver(p, upd, pc) ==
  /\ left > 0
  /\ ~InFlight(p)
  /\ left' = left - 1
  /\ procs' = [procs EXCEPT ![p] =
                 [IdleProc EXCEPT !.pc = pc, !.upd = upd,
                                  !.alone = \A q \in Procs \ {p} : ~InFlight(q)]]

\* a handler that touches the chat store between two awaits only: the
\* whole invocation is one step
Run(p, upd, out) ==
  /\ left > 0
  /\ \A q \in Procs : ~InFlight(q)
  /\ left' = left - 1
  /\ chat_data' = out.cd
  /\ procs' = [procs EXCEPT ![p] =
                 [IdleProc EXCEPT !.pc = "done", !.upd = upd,
                                  !.replies = out.replies, !.calls = out.calls,
                                  !.raised = out.raised]]
  /\ UNCHANGED call

\* a suspended handler resumes and runs to its next await
Resume(p, pc, res) ==
  /\ procs[p].pc = pc
  /\ procs' = [procs EXCEPT ![p] = res.pr]
  /\ chat_data' = res.cd
  /\ UNCHANGED <<left, call>>

OnBan(p) ==
  \E upd \in TargetUpdates("ban"), fails \in 0..1 : Run(p, upd, ban(upd, chat_data, fails))

OnUnban(p) ==
  \E upd \in TargetUpdates("unban"), fails \in 0..1 : Run(p, upd, unban(upd, chat_data, fails))

OnKick(p) ==
  \E upd \in TargetUpdates("kick"), fails \in 0..2 : Run(p, upd, kick(upd, chat_data, fails))

OnMute(p) ==
  \E upd \in MuteUpdates, fails \in 0..1, now \in Clocks :
     Run(p, upd, mute(upd, chat_data, fails, now))

OnUnmute(p) ==
  \E upd \in TargetUpdates("unmute"), fails \in 0..1 : Run(p, upd, unmute(upd, chat_data, fails))

OnPromote(p) ==
  \E upd \in TargetUpdates("promote"), fails \in 0..1 : Run(p, upd, promote(upd, chat_data, fails))

OnDemote(p) ==
  \E upd \in TargetUpdates("demote"), fails \in 0..1 : Run(p, upd, demote(upd, chat_data, fails))

OnPin(p) ==
  \E upd \in GroupUpdates("pin"), fails \in 0..1 : Run(p, upd, pin(upd, chat_data, fails))

OnUnpin(p) ==
  \E upd \in GroupUpdates("unpin"), fails \in 0..1 : Run(p, upd, unpin(upd, chat_data, fails))

OnPurge(p) ==
  \E upd \in GroupUpdates("purge"), failed \in {{}, {1}}, fails \in 0..1 :
     Run(p, upd, purge(upd, chat_data, failed, fails))

OnSetwelcome(p) ==
  \E upd \in ArgUpdates("setwelcome", TextArgs) : Run(p, upd, setwelcome(upd, chat_data))

OnSetrules(p) ==
  \E upd \in ArgUpdates("setrules", TextArgs) : Run(p, upd, setrules(upd, chat_data))

OnEnable(p) ==
  \E upd \in ArgUpdates("enable", {<<>>}) : Run(p, upd, enable(upd, chat_data))

OnDisable(p) ==
  \E upd \in ArgUpdates("disable", {<<>>}) : Run(p, upd, disable(upd, chat_data))

OnSilent(p) ==
  \E upd \in ArgUpdates("silent", {<<>>}) : Run(p, upd, silent(upd, chat_data))

OnDebug(p) ==
  \E upd \in ArgUpdates("debug", {<<>>}) : Run(p, upd, debug(upd, chat_data))

OnLock(p) ==
  \E upd \in ArgUpdates("lock", LockArgs) : Run(p, upd, lock(upd, chat_data))

OnUnlock(p) ==
  \E upd \in ArgUpdates("unlock", LockArgs) : Run(p, upd, unlock(upd, chat_data))

\* /warn: delivery, then one step per await
OnWarn(p, updates) ==
  \E upd \in updates : Deliver(p, upd, "get_member") /\ UNCHANGED <<chat_data, call>>

WarnChecked(p) ==
  Resume(p, "get_member", warn_checked(procs[p], chat_data)) /\ procs[p].upd.cmd = "warn"

WarnReplied(p) ==
  Resume(p, "reply_warned", [pr |-> warn_replied(procs[p]), cd |-> chat_data])

WarnBanned(p) ==
  \E ok \in BOOLEAN :
     Resume(p, "ban", [pr |-> warn_banned(procs[p], ok), cd |-> chat_data])

WarnUnbanned(p) ==
  \E ok \in BOOLEAN : Resume(p, "unban", warn_unbanned(procs[p], chat_data, ok))

OnUnwarn(p, updates) ==
  \E upd \in updates : Deliver(p, upd, "get_member") /\ UNCHANGED <<chat_data, call>>

UnwarnChecked(p) ==
  Resume(p, "get_member", unwarn_checked(procs[p], chat_data)) /\ procs[p].upd.cmd = "unwarn"

\* /warn and /unwarn when updates are handled one after the other
RunWarn(p) ==
  \E upd \in TargetUpdates("warn"), fails \in 0..2 : Run(p, upd, warn(upd, chat_data, fails))

RunUnwarn(p) ==
  \E upd \in TargetUpdates("unwarn") : Run(p, upd, unwarn(upd, chat_data))

\* polling: the updates are handled one after the other, each handler to
\* its end
Next ==
  \/ OnBan(1) \/ OnUnban(1) \/ OnKick(1) \/ OnMute(1) \/ OnUnmute(1)
  \/ OnPromote(1) \/ OnDemote(1)
  \/ OnPin(1) \/ OnUnpin(1) \/ OnPurge(1) \/ OnSetwelcome(1) \/ OnSetrules(1)
  \/ OnEnable(1) \/ OnDisable(1) \/ OnSilent(1) \/ OnDebug(1)
  \/ OnLock(1) \/ OnUnlock(1)
  \/ RunWarn(1) \/ RunUnwarn(1)

Spec == Init /\ [][Next]_vars


\* the webhook: telegram_webhook awaits process_update for each request, so
\* the handlers of several requests overlap at their awaits.  Each of the
\* MaxWarnUpdates updates has its own slot procs[p], which keeps what the
\* handler sent; at most NumProcs handlers are in flight.
InitWarn ==
  /\ chat_data = EmptyDict
  /\ procs = [p \in Procs |-> IdleProc]
  /\ left = MaxWarnUpdates
  /\ call = NoCall

Fresh(p) ==
  /\ procs[p].pc = "idle"
  /\ \A q \in Procs : q < p => procs[q].pc # "idle"
  /\ Cardinality({q \in Procs : InFlight(q)}) < NumProcs

NextWarn ==
  \E p \in Procs :
    \/ Fresh(p) /\ OnWarn(p, WarnUpdates("warn"))
    \/ Fresh(p) /\ OnUnwarn(p, WarnUpdates("unwarn"))
    \/ WarnChecked(p) \/ WarnReplied(p) \/ WarnBanned(p) \/ WarnUnbanned(p)
    \/ UnwarnChecked(p)

SpecWarn == InitWarn /\ [][NextWarn]_vars


-----------------------------------------------------------------------------
(* The pure helpers, called on every short text and on chosen long ones.   *)

Texts(alphabet, n) == UNION {[1..k -> alphabet] : k \in 0..n}

DurationAlphabet == {"0", "2", "3", "h", "M", "x"}

DurationTexts == Texts(DurationAlphabet, MaxLen) \cup DurationArgs \cup
  { <<"1", "2", "x", "3", "m">>, <<"1", "w", "2", "d", "3", "s">>,
    <<"9", "9", "9", "9", "9", "9", "9", "9", "9", "d">>,
    <<"1", "4", "2", "8", "5", "7", "1", "4", "3", "w">>,
    <<"1", "4", "2", "8", "5", "7", "1", "4", "2", "w", "5", "d", "8", "6", "4", "0", "0", "S">> }

TargetAlphabet == {"@", "-", "0", "7", "x"}

TargetMessages ==
  {Update("ban", 11, "administrator", r, a) :
     r \in {None, Authored, Authorless},
     a \in {<<>>} \cup {<<t>> : t \in Texts(TargetAlphabet, MaxLen) \ {<<>>}}
                  \cup {<<t, <<"7">> >> : t \in {<<"x">>, <<"@", "7">>}}}

InitParse ==
  /\ chat_data = EmptyDict
  /\ procs = [p \in Procs |-> IdleProc]
  /\ left = 0
  /\ \E text \in DurationTexts :
       call = [fn |-> "parse_duration", arg |-> text, returned |-> FALSE,
               ret |-> [raises |-> FALSE, days |-> 0, seconds |-> 0]]

CallParseDuration ==
  /\ call.fn = "parse_duration" /\ ~call.returned
  /\ call' = [call EXCEPT !.returned = TRUE, !.ret = parse_duration(call.arg)]
  /\ UNCHANGED <<chat_data, procs, left>>

SpecParse == InitParse /\ [][CallParseDuration]_vars

InitTarget ==
  /\ chat_data = EmptyDict
  /\ procs = [p \in Procs |-> IdleProc]
  /\ left = 0
  /\ \E upd \in TargetMessages :
       call = [fn |-> "_get_target_user", arg |-> upd, returned |-> FALSE, ret |-> None]

CallGetTargetUser ==
  /\ call.fn = "_get_target_user" /\ ~call.returned
  /\ call' = [call EXCEPT !.returned = TRUE, !.ret = GetTargetUser(call.arg)]
  /\ UNCHANGED <<chat_data, procs, left>>

SpecTarget == InitTarget /\ [][CallGetTargetUser]_vars


\* the bank: /give and /balance from users 11 and 22
AmountTexts == Texts({"-", "0", "5", "x"}, 2) \ {<<>>}

GiveArgs ==
  {<<>>, << <<"2", "2">> >>}
    \cup {<<t, a>> : t \in {<<"2", "2">>, <<"1", "1">>, <<"x">>}, a \in AmountTexts}
    \cup {<< <<"2", "2">>, <<"5">>, <<"x">> >>}

OnGive(p) ==
  \E user \in {11, 22}, args \in GiveArgs :
     LET upd == Update("give", user, "member", None, args)
     IN  Run(p, upd, give(upd, chat_data))

OnBalance(p) ==
  \E user \in {11, 22} :
     LET upd == Update("balance", user, "member", None, <<>>)
     IN  Run(p, upd, balance(upd, chat_data))

NextBank == OnGive(1) \/ OnBalance(1)

SpecBank == Init /\ [][NextBank]_vars


-----------------------------------------------------------------------------
(* Properties of /warn and /unwarn (SpecWarn).                              *)

Warnings == Get(chat_data, "warnings", EmptyDict)

Done(p) == procs[p].pc = "done"

ByAdmin(upd) == upd.status \in {"administrator", "creator"}

\* slot p holds a finished /warn of an administrator against user t that
\* ran with no other handler in flight and whose platform calls all
\* returned
WarnedAlone(p, t) ==
  /\ Done(p)
  /\ procs[p].upd.cmd = "warn"
  /\ ByAdmin(procs[p].upd)
  /\ GetTargetUser(procs[p].upd) = Some(t)
  /\ procs[p].alone
  /\ \A i \in 1..Len(procs[p].calls) : procs[p].calls[i].ok

ThreeWarns(t) ==
  /\ \A p \in 1..3 : WarnedAlone(p, t)
  /\ \A p \in Procs : p > 3 => procs[p].pc = "idle"

Announced(n) == ReplyN("User has been warned (%d/3).", n)

\* C1: in a chat that starts without warnings, three consecutive /warn of
\* an administrator against the same user, each run to its end and with
\* the platform calls succeeding, announce 1, then 2, then 3 followed by
\* the kick (ban, then unban of that user), and leave the stored count at 0.
C1_ThreeWarnsKick ==
  \A t \in {7, 22} :
     ThreeWarns(t) =>
       /\ procs[1].replies = <<Announced(1)>> /\ procs[1].calls = <<>>
       /\ procs[2].replies = <<Announced(2)>> /\ procs[2].calls = <<>>
       /\ procs[3].replies =
            <<Announced(3), Reply("User has been kicked due to excessive warnings.")>>
       /\ procs[3].calls = <<PlatformCall("ban_chat_member", t, TRUE, <<>>),
                             PlatformCall("unban_chat_member", t, TRUE, <<>>)>>
       /\ Has(Warnings, t) /\ Warnings[t] = 0

C1_Witness == \E t \in {7, 22} : ThreeWarns(t)

NoWarnInProgress ==
  \A p \in Procs : ~(InFlight(p) /\ procs[p].upd.cmd = "warn")

\* C2: whenever no /warn handler is in progress, every stored warning
\* count is 0, 1 or 2, the platform rejecting the ban or the unban
\* included.
C2_CountBelowLimitAtRest ==
  NoWarnInProgress => \A id \in DOMAIN Warnings : Warnings[id] \in 0..2

C3_NonNegative == \A id \in DOMAIN Warnings : Warnings[id] >= 0

\* the step in which the /unwarn of slot p, sent by an administrator with
\* a target, reads and writes the store
UnwarnActs(p) ==
  /\ procs[p].pc = "get_member"
  /\ procs[p].upd.cmd = "unwarn"
  /\ procs'[p].pc = "done"
  /\ ByAdmin(procs[p].upd)
  /\ Truthy(GetTargetUser(procs[p].upd))

C3_UnwarnStep ==
  \A p \in Procs :
     UnwarnActs(p) =>
       LET t == GetTargetUser(procs[p].upd)[1]
           before == WarnCount(chat_data, t)
           after == WarnCount(chat_data', t)
       IN  /\ IF before > 0
              THEN /\ after = before - 1
                   /\ procs'[p].replies =
                        <<ReplyN("Removed a warning. Total warnings: %d.", after)>>
              ELSE /\ after = before
                   /\ procs'[p].replies = <<Reply("That user has no warnings.")>>
           /\ \A id \in {7, 22} \ {t} :
                 WarnCount(chat_data', id) = WarnCount(chat_data, id)

\* C3: no warning count is ever negative; /unwarn takes exactly 1 from the
\* count of its target when that count is above 0, and otherwise leaves it
\* as it is and replies 'That user has no warnings.'.
C3_UnwarnFloor == []C3_NonNegative /\ [][C3_UnwarnStep]_vars

C3_Witness ==
  \E p, q \in Procs :
     /\ Done(p) /\ procs[p].upd.cmd = "unwarn"
     /\ procs[p].replies = <<Reply("That user has no warnings.")>>
     /\ Done(q) /\ procs[q].upd.cmd = "unwarn"
     /\ procs[q].replies = <<ReplyN("Removed a warning. Total warnings: %d.", 0)>>
     /\ C3_NonNegative


-----------------------------------------------------------------------------
(* Properties of target resolution (SpecTarget).                            *)

RECURSIVE Pow10(_)
Pow10(n) == IF n = 0 THEN 1 ELSE 10 * Pow10(n - 1)

RECURSIVE SumFn(_)
SumFn(f) ==
  IF DOMAIN f = {} THEN 0
  ELSE LET x == CHOOSE x \in DOMAIN f : TRUE
       IN  f[x] + SumFn([y \in DOMAIN f \ {x} |-> f[y]])

\* the number written by the digits s[i..j]
NumeralValue(s, i, j) ==
  SumFn([k \in i..j |-> DigitVal(s[k]) * Pow10(j - k)])

\* the integer a token writes, None if it writes none: digits, with at
\* most one sign in front
IntegerOf(s) ==
  LET signed == Len(s) > 0 /\ s[1] \in {"+", "-"}
      first == IF signed THEN 2 ELSE 1
  IN  IF first <= Len(s) /\ \A k \in first..Len(s) : s[k] \in Digits
      THEN Some(IF signed /\ s[1] = "-" THEN 0 - NumeralValue(s, first, Len(s))
                ELSE NumeralValue(s, first, Len(s)))
      ELSE None

\* the token without one leading '@'
WithoutOneAt(s) ==
  IF Len(s) > 0 /\ s[1] = "@" THEN SubSeq(s, 2, Len(s)) ELSE s

\* the token without its leading '@'s
WithoutLeadingAts(s) ==
  LET k == CHOOSE k \in 0..Len(s) :
             /\ \A i \in 1..k : s[i] = "@"
             /\ k = Len(s) \/ s[k + 1] # "@"
  IN  SubSeq(s, k + 1, Len(s))

Resolved == call.fn = "_get_target_user" /\ call.returned

-----------------------------------------------------------------------------
(* Properties of parse_duration (SpecParse).                                *)

\* the seconds of a unit letter, either case
SecondsOfUnit(c) ==
  CASE c \in {"s", "S"} -> 1
    [] c \in {"m", "M"} -> 60
    [] c \in {"h", "H"} -> 3600
    [] c \in {"d", "D"} -> 86400
    [] c \in {"w", "W"} -> 604800
    [] OTHER -> 0

\* the index of the last digit of the run of digits that starts at i
LastDigit(s, i) ==
  CHOOSE j \in i..Len(s) :
    /\ \A k \in i..j : s[k] \in Digits
    /\ j = Len(s) \/ s[j + 1] \notin Digits

\* where the <integer><unit> tokens of s start: a run of digits, taken
\* whole, with a unit letter right after it
TokenStarts(s) ==
  {i \in 1..Len(s) :
     /\ s[i] \in Digits
     /\ i = 1 \/ s[i - 1] \notin Digits
     /\ LastDigit(s, i) < Len(s)
     /\ SecondsOfUnit(s[LastDigit(s, i) + 1]) > 0}

\* value * unit of the token that starts at i, as whole days and the
\* seconds left over; every unit divides a day or is a number of days
TokenDays(s, i) ==
  LET value == NumeralValue(s, i, LastDigit(s, i))
      unit == SecondsOfUnit(s[LastDigit(s, i) + 1])
  IN  IF unit % 86400 = 0 THEN value * (unit \div 86400)
      ELSE value \div (86400 \div unit)

TokenSeconds(s, i) ==
  LET value == NumeralValue(s, i, LastDigit(s, i))
      unit == SecondsOfUnit(s[LastDigit(s, i) + 1])
  IN  IF unit % 86400 = 0 THEN 0
      ELSE (value % (86400 \div unit)) * unit

\* the sum of value * unit over the tokens of s
TokenSum(s) ==
  LET days == SumFn([i \in TokenStarts(s) |-> TokenDays(s, i)])
      seconds == SumFn([i \in TokenStarts(s) |-> TokenSeconds(s, i)])
  IN  [days |-> days + (seconds \div 86400), seconds |-> seconds % 86400]

Parsed == call.fn = "parse_duration" /\ call.returned

Returns(total) ==
  /\ ~call.ret.raises
  /\ call.ret.days = total.days
  /\ call.ret.seconds = total.seconds

-----------------------------------------------------------------------------
(* Properties of /give (SpecBank).                                          *)

Bank(cd) == Get(cd, "bank", EmptyDict)

C4_NonNegative == \A id \in DOMAIN Bank(chat_data) : Bank(chat_data)[id] >= 0

\* the step that handles a /give with both its arguments
Gives ==
  /\ left' = left - 1
  /\ procs'[1].upd.cmd = "give"
  /\ Len(procs'[1].upd.args) >= 2

BalancesUnchanged ==
  \A id \in DOMAIN Bank(chat_data) \cup DOMAIN Bank(chat_data') \cup {11, 22} :
     Balance(chat_data', id) = Balance(chat_data, id)

Rejected ==
  /\ Len(procs'[1].replies) = 1
  /\ procs'[1].replies[1].text \in
       {"Insufficient funds.", "Invalid usage. Amount must be a positive integer."}
  /\ BalancesUnchanged

C4_GiveAsStated ==
  Gives =>
    LET upd == procs'[1].upd
        amount == IntegerOf(upd.args[2])
    IN  /\ (amount # None /\ amount[1] > Balance(chat_data, upd.user)) =>
             /\ procs'[1].replies = <<Reply("Insufficient funds.")>>
             /\ BalancesUnchanged
        /\ (amount = None \/ amount[1] <= 0) => Rejected

C4_GiveStep ==
  Gives =>
    LET upd == procs'[1].upd
        target == IntegerOf(upd.args[1])
        amount == IntegerOf(upd.args[2])
    IN  /\ (target # None /\ amount # None
              /\ amount[1] > Balance(chat_data, upd.user)) =>
             /\ procs'[1].replies = <<Reply("Insufficient funds.")>>
             /\ BalancesUnchanged
        /\ (target = None \/ amount = None \/ amount[1] <= 0) => Rejected

-----------------------------------------------------------------------------
(* Properties of the administrative handlers (Spec).                        *)

\* the step that handles one update, start to end
Handles(cmds) == left' = left - 1 /\ procs'[1].upd.cmd \in cmds

DenialTexts ==
  {"You must be an admin to use this command.",
   "You must be an admin to pin messages.",
   "You must be an admin to unpin messages.",
   "You must be an admin to purge messages.",
   "Only administrators can enable the bot.",
   "Only administrators can disable the bot.",
   "Only administrators can toggle silent mode.",
   "Only administrators can toggle debug mode.",
   "Only administrators can lock content types.",
   "Only administrators can unlock content types."}

Denied(pr) ==
  /\ ~pr.raised
  /\ Len(pr.replies) = 1 /\ pr.replies[1].text \in DenialTexts
  /\ pr.calls = <<>>

C5_Step ==
  (/\ Handles({"ban", "kick", "mute", "warn", "promote", "demote", "pin", "unpin",
               "purge", "lock", "unlock", "enable", "disable", "silent", "debug",
               "setrules", "setwelcome"})
   /\ procs'[1].upd.status = "member")
    => Denied(procs'[1]) /\ chat_data' = chat_data

\* C5: each of ban, kick, mute, warn, promote, demote, pin, unpin, purge,
\* lock, unlock, enable, disable, silent, debug, setrules and setwelcome,
\* sent by a member who is no administrator, answers with its denial and
\* makes no platform call and no change to the chat's state.
C5_DeniedFirst == [][C5_Step]_vars

\* C6: when the membership lookup raises, every command that checks the
\* sender (pin, unpin and purge included) sends its denial, does nothing
\* else and lets no exception out; when the lookup answers, the sender
\* passes exactly with status administrator or creator.
C6_FailClosed ==
  (/\ Done(1)
   /\ procs[1].upd.cmd \in
        {"ban", "unban", "kick", "mute", "unmute", "warn", "unwarn", "promote",
         "demote", "pin", "unpin", "purge", "lock", "unlock", "enable", "disable",
         "silent", "debug"})
    => IF ByAdmin(procs[1].upd)
       THEN ~Denied(procs[1])
       ELSE Denied(procs[1])

PromptTexts ==
  {"Please specify a user to ban (reply or mention).",
   "Please specify a user to unban (reply or mention).",
   "Please specify a user to kick (reply or mention).",
   "Please specify a user to mute (reply or mention).",
   "Please specify a user to unmute (reply or mention).",
   "Please specify a user to warn (reply or mention).",
   "Please specify a user to unwarn (reply or mention).",
   "Please specify a user to promote (reply or mention).",
   "Please specify a user to demote (reply or mention)."}

Prompted(pr) ==
  /\ Len(pr.replies) = 1 /\ pr.replies[1].text \in PromptTexts
  /\ pr.calls = <<>>

C8_Step ==
  (/\ Handles({"ban", "unban", "kick", "mute", "unmute", "warn", "unwarn",
               "promote", "demote"})
   /\ ByAdmin(procs'[1].upd))
    => LET pr == procs'[1]
           target == GetTargetUser(pr.upd)
       IN  IF target = None
           THEN Prompted(pr) /\ Bank(chat_data') = Bank(chat_data)
                             /\ Get(chat_data', "warnings", EmptyDict) = Warnings
           ELSE /\ ~Prompted(pr)
                /\ \A i \in 1..Len(pr.calls) : pr.calls[i].id = target[1]
                /\ pr.upd.cmd \notin {"warn", "unwarn"} => Len(pr.calls) > 0

\* C8: ban, unban, kick, mute, unmute, warn, unwarn, promote and demote
\* sent by an administrator prompt for a user, call nothing and leave the
\* warnings alone exactly when target resolution yields no id; with any id
\* the resolver yields they act on that id.
C8_ActsOnResolved == [][C8_Step]_vars

\* C10: the /mute of an administrator with a target restricts for 1000
\* weeks when there is no duration argument or it parses to zero, and for
\* exactly the parsed length when that is positive; the length is never
\* zero or negative.
C10_MuteLength ==
  (/\ Done(1)
   /\ procs[1].upd.cmd = "mute"
   /\ ByAdmin(procs[1].upd)
   /\ Truthy(GetTargetUser(procs[1].upd)))
    => LET args == procs[1].upd.args
           parsed == IF Len(args) >= 2 THEN TokenSum(args[2])
                     ELSE [days |-> 0, seconds |-> 0]
           length == IF parsed.days > 0 \/ parsed.seconds > 0 THEN parsed
                     ELSE [days |-> 7000, seconds |-> 0]
       IN  /\ Len(procs[1].calls) = 1
           /\ procs[1].calls[1].op = "restrict_chat_member"
           /\ procs[1].calls[1].arg = <<length.days, length.seconds>>
           /\ procs[1].calls[1].arg[1] > 0 \/ procs[1].calls[1].arg[2] > 0


-----------------------------------------------------------------------------
(* Properties of pin, unpin and purge (Spec).                               *)

MessageMutations ==
  {"pin_chat_message", "unpin_chat_message", "unpin_all_chat_messages",
   "delete_message"}

ReplyPrompts ==
  {"Reply to a message you want to pin.",
   "Reply to a message to purge from that message up to the current one."}

\* C11: pin, unpin and purge sent by an administrator without a reply
\* each send one prompt and make no pin, unpin or delete call.
C11_ReplyRequired ==
  (/\ Done(1)
   /\ procs[1].upd.cmd \in {"pin", "unpin", "purge"}
   /\ ByAdmin(procs[1].upd)
   /\ procs[1].upd.reply = None)
    => /\ Len(procs[1].replies) = 1
       /\ procs[1].upd.cmd # "unpin" => procs[1].replies[1].text \in ReplyPrompts
       /\ procs[1].replies[1].text # "Message(s) unpinned."
       /\ \A i \in 1..Len(procs[1].calls) :
             procs[1].calls[i].op \notin MessageMutations


-----------------------------------------------------------------------------
(* /lock and /unlock, each update in a slot of its own (SpecLock).          *)

NextLock ==
  \E p \in Procs :
    \/ Fresh(p) /\ OnLock(p)
    \/ Fresh(p) /\ OnUnlock(p)

SpecLock == InitWarn /\ [][NextLock]_vars

Capitals ==
  <<"A", "B", "C", "D", "E", "F", "G", "H", "I", "J", "K", "L", "M",
    "N", "O", "P", "Q", "R", "S", "T", "U", "V", "W", "X", "Y", "Z">>

Smalls ==
  <<"a", "b", "c", "d", "e", "f", "g", "h", "i", "j", "k", "l", "m",
    "n", "o", "p", "q", "r", "s", "t", "u", "v", "w", "x", "y", "z">>

\* a tag in lower case
LowerTag(t) ==
  [i \in 1..Len(t) |->
     IF \E k \in 1..Len(Capitals) : Capitals[k] = t[i]
     THEN Smalls[CHOOSE k \in 1..Len(Capitals) : Capitals[k] = t[i]]
     ELSE t[i]]

LowerTags(args) == {LowerTag(args[i]) : i \in 1..Len(args)}

Locks(cd) == Get(cd, "locks", {})

\* slot p holds the /lock of an administrator with at least one tag
LockedBy(pr) ==
  /\ pr.pc = "done" /\ pr.upd.cmd = "lock"
  /\ ByAdmin(pr.upd) /\ Len(pr.upd.args) > 0

C12_Step ==
  \A p \in Procs :
     (procs[p].pc = "idle" /\ LockedBy(procs'[p])) =>
        LET union == Locks(chat_data) \cup LowerTags(procs'[p].upd.args)
        IN  /\ Locks(chat_data') = union
            /\ procs'[p].replies = <<LockedReply(union)>>
            /\ lock(procs'[p].upd, chat_data').cd = chat_data'

\* the same /lock right after itself lists the same set
C12_Repeat ==
  \A p \in Procs :
     (/\ p + 1 \in Procs
      /\ LockedBy(procs[p]) /\ LockedBy(procs[p + 1])
      /\ LowerTags(procs[p].upd.args) = LowerTags(procs[p + 1].upd.args))
       => procs[p + 1].replies = procs[p].replies

\* C12: an administrator's /lock T turns the lock set L into L united with
\* the lower-cased tags of T, and the same /lock again, in the same or
\* another case, leaves the set as it is.
C12_LockUnion == []C12_Repeat /\ [][C12_Step]_vars

C12_Witness ==
  /\ LockedBy(procs[1]) /\ LockedBy(procs[2])
  /\ procs[1].upd.args = << <<"m", "e", "d", "i", "a">> >>
  /\ procs[2].upd.args = << <<"M", "E", "D", "I", "A">> >>
  /\ Locks(chat_data) = {<<"m", "e", "d", "i", "a">>}
  /\ Cardinality(Locks(chat_data)) = 1


-----------------------------------------------------------------------------
(* /quiz and /answer, each update in a slot of its own (SpecQuiz).          *)

\* the tokens after /answer and the text after it as split(None, 1)
\* leaves it: inner and trailing spaces are kept
AnswerInputs ==
  { [args |-> <<>>, rest |-> None],
    [args |-> << <<"p", "a", "r", "i", "s">> >>,
     rest |-> Some(<<"p", "a", "r", "i", "s">>)],
    [args |-> << <<"P", "a", "r", "i", "s">> >>,
     rest |-> Some(<<"P", "a", "r", "i", "s", " ">>)],
    [args |-> << <<"1", "2">> >>, rest |-> Some(<<"1", "2">>)],
    [args |-> << <<"1">>, <<"2">> >>, rest |-> Some(<<"1", " ", "2">>)],
    [args |-> << <<"x">> >>, rest |-> Some(<<"x">>)] }

OnQuiz(p) ==
  \E k \in 1..Len(Questions) :
     LET upd == Update("quiz", 11, "member", None, <<>>)
     IN  Run(p, upd, quiz(upd, chat_data, k))

OnAnswer(p) ==
  \E in \in AnswerInputs :
     LET upd == [Update("answer", 11, "member", None, in.args) EXCEPT !.rest = in.rest]
     IN  Run(p, upd, answer(upd, chat_data))

NextQuiz ==
  \E p \in Procs :
    \/ Fresh(p) /\ OnQuiz(p)
    \/ Fresh(p) /\ OnAnswer(p)

SpecQuiz == InitWarn /\ [][NextQuiz]_vars

Pending(cd) == IF "quiz_answer" \in DOMAIN cd THEN Some(cd["quiz_answer"]) ELSE None

\* the text without the spaces around it
Trimmed(t) ==
  IF \A i \in 1..Len(t) : t[i] = " " THEN <<>>
  ELSE LET first == CHOOSE i \in 1..Len(t) :
                      t[i] # " " /\ \A j \in 1..(i - 1) : t[j] = " "
           last == CHOOSE i \in 1..Len(t) :
                     t[i] # " " /\ \A j \in (i + 1)..Len(t) : t[j] = " "
       IN  SubSeq(t, first, last)

NoQuiz == <<Reply("No quiz in progress. Use /quiz to start one.")>>

Answered(pr) == pr.pc = "done" /\ pr.upd.cmd = "answer" /\ pr.upd.rest # None

C13_Step ==
  \A p \in Procs :
     (procs[p].pc = "idle" /\ procs'[p].pc = "done") =>
        LET pr == procs'[p]
            before == Pending(chat_data)
            after == Pending(chat_data')
        IN  /\ pr.upd.cmd = "quiz" =>
                 /\ after # None
                 /\ \E k \in 1..Len(Questions) :
                       /\ after[1] = Questions[k].a
                       /\ pr.replies[1].arg = <<Questions[k].q>>
            /\ Answered(pr) =>
                 /\ after = None
                 /\ IF before = None THEN pr.replies = NoQuiz
                    ELSE IF LowerTag(Trimmed(pr.upd.rest[1])) = before[1]
                    THEN pr.replies = <<Reply("Correct!")>>
                    ELSE /\ Len(pr.replies) = 1
                         /\ pr.replies[1].text = "Wrong. The correct answer was: %s"
                         /\ pr.replies[1].arg = <<before[1]>>
            /\ (pr.upd.cmd = "answer" /\ pr.upd.rest = None) =>
                 /\ pr.replies = <<Reply("Usage: /answer <your answer>")>>
                 /\ chat_data' = chat_data

\* after a /quiz, the /answer <text> that follows the first /answer <text>
\* is told that no quiz is in progress
C13_SecondAnswer ==
  \A p \in Procs :
     (/\ p + 2 \in Procs
      /\ procs[p].pc = "done" /\ procs[p].upd.cmd = "quiz"
      /\ Answered(procs[p + 1]) /\ Answered(procs[p + 2]))
       => /\ procs[p + 1].replies # NoQuiz
          /\ procs[p + 2].replies = NoQuiz

\* C13: /quiz replaces the pending answer by the answer of the question it
\* asks; the first /answer <text> after it clears the pending answer,
\* right or wrong, so that the /answer <text> right after it gets the
\* no-quiz reply; /answer without text gets the usage reply and leaves the
\* pending answer in place.
C13_OnePendingAnswer == []C13_SecondAnswer /\ [][C13_Step]_vars

C13_Witness ==
  /\ procs[1].pc = "done" /\ procs[1].upd.cmd = "quiz"
  /\ Answered(procs[2]) /\ procs[2].replies[1].text = "Wrong. The correct answer was: %s"
  /\ Answered(procs[3]) /\ procs[3].replies = NoQuiz
  /\ Pending(chat_data) = None


-----------------------------------------------------------------------------
(* bot/services: the service clients.                                       *)
(*                                                                         *)
(* A JSON value is a record tagged by t: "null", "str", "num", "list"      *)
(* (v a sequence of values) or "dict" (v a function from keys to values).  *)
(* A step of Python that may raise yields [raised, v]: v is meaningful     *)
(* when raised is FALSE.                                                   *)

JNull == [t |-> "null"]
JStr(x) == [t |-> "str", v |-> x]
JNum(n) == [t |-> "num", v |-> n]
JList(xs) == [t |-> "list", v |-> xs]
JDict(f) == [t |-> "dict", v |-> f]

Returned(v) == [raised |-> FALSE, v |-> v]
Raised == [raised |-> TRUE, v |-> JNull]

\* x[key]: KeyError on a dict without the key, TypeError on a list (a
\* str key), on None and on a number; a str indexed by a str is a
\* TypeError as well
Subscript(x, key) ==
  IF x.t = "dict" /\ key \in DOMAIN x.v THEN Returned(x.v[key]) ELSE Raised

\* x[0]: IndexError on an empty list or str, KeyError on a dict (no JSON
\* key is the number 0), TypeError on None and on a number
First(x) ==
  IF x.t = "list" /\ Len(x.v) > 0 THEN Returned(x.v[1])
  ELSE IF x.t = "str" /\ x.v # "" THEN Returned(JStr("<first character>"))
  ELSE Raised

\* x.get(key, default): AttributeError unless x is a dict
GetDefault(x, key, default) ==
  IF x.t = "dict"
  THEN Returned(IF key \in DOMAIN x.v THEN x.v[key] ELSE default)
  ELSE Raised

\* what one outbound HTTP request meets: whether requests can be
\* imported, whether the connection succeeds, the status, and the body
\* (a JSON value, or [t |-> "notjson"])
NotJson == [t |-> "notjson"]

\* import requests; requests.get(...); response.raise_for_status();
\* response.json(): the decoded body, with the number of requests sent
HttpGetJson(env) ==
  IF ~env.import_ok THEN [raised |-> TRUE, v |-> JNull, requests |-> 0]
  ELSE IF env.net # "ok" \/ env.status >= 400 \/ env.body = NotJson
  THEN [raised |-> TRUE, v |-> JNull, requests |-> 1]
  ELSE [raised |-> FALSE, v |-> env.body, requests |-> 1]

\* the dict a client returns: a function from its keys to values
EmptyResult == [raised |-> FALSE, v |-> EmptyDict]

\* WeatherService.get_weather.fetch, the body of its try
WeatherExtract(data) ==
  LET main == Subscript(data, "main")
      temp == IF main.raised THEN Raised ELSE Subscript(main.v, "temp")
      humidity == IF main.raised THEN Raised ELSE Subscript(main.v, "humidity")
      weather == Subscript(data, "weather")
      first == IF weather.raised THEN Raised ELSE First(weather.v)
      description == IF first.raised THEN Raised ELSE Subscript(first.v, "description")
      wind == Subscript(data, "wind")
      speed == IF wind.raised THEN Raised ELSE Subscript(wind.v, "speed")
      city == GetDefault(data, "name", JNull)
      sys == GetDefault(data, "sys", JDict(EmptyDict))
      country == IF sys.raised THEN Raised ELSE GetDefault(sys.v, "country", JNull)
  IN  IF temp.raised \/ humidity.raised \/ description.raised \/ speed.raised
         \/ city.raised \/ country.raised
      THEN Raised
      ELSE Returned([k \in {"temperature", "humidity", "description", "wind_speed",
                            "city", "country"} |->
                       CASE k = "temperature" -> temp.v
                         [] k = "humidity" -> humidity.v
                         [] k = "description" -> description.v
                         [] k = "wind_speed" -> speed.v
                         [] k = "city" -> city.v
                         [] k = "country" -> country.v])

\* Fetch that tries the request a second time when the first one fails
Fetch_retried(http, extracted) ==
  IF http.raised
  THEN [raised |-> FALSE, v |-> EmptyDict, requests |-> http.requests + 1]
  ELSE IF extracted.raised
  THEN [raised |-> FALSE, v |-> EmptyDict, requests |-> http.requests]
  ELSE [raised |-> FALSE, v |-> extracted.v, requests |-> http.requests]

\* fetch without its except clause
Fetch_uncaught(http, extracted) ==
  IF http.raised \/ extracted.raised
  THEN [raised |-> TRUE, v |-> EmptyDict, requests |-> http.requests]
  ELSE [raised |-> FALSE, v |-> extracted.v, requests |-> http.requests]

\* fetch: try: <request and extraction> except Exception: return {}
Fetch(http, extracted) ==
  IF http.raised \/ extracted.raised
  THEN [raised |-> FALSE, v |-> EmptyDict, requests |-> http.requests]
  ELSE [raised |-> FALSE, v |-> extracted.v, requests |-> http.requests]

\* WeatherService.get_weather
WeatherService_get_weather(api_key, env) ==
  IF ~api_key THEN [raised |-> FALSE, v |-> EmptyDict, requests |-> 0]
  ELSE LET http == HttpGetJson(env)
       IN  Fetch(http, IF http.raised THEN Raised ELSE WeatherExtract(http.v))


\* TranslationService.translate.fetch, the body of its try; text and
\* target_lang are the arguments of translate
TranslationExtract(data, text, target_lang) ==
  LET rd == GetDefault(data, "responseData", JDict(EmptyDict))
      translated == IF rd.raised THEN Raised
                    ELSE GetDefault(rd.v, "translatedText", JStr(""))
  IN  IF translated.raised THEN Raised
      ELSE Returned([k \in {"original", "translated", "source_lang", "target_lang"} |->
                       CASE k = "original" -> JStr(text)
                         [] k = "translated" -> translated.v
                         [] k = "source_lang" -> JStr("auto")
                         [] k = "target_lang" -> JStr(target_lang)])

\* TranslationService.translate: the key only adds a parameter
TranslationService_translate(api_key, env, text, target_lang) ==
  LET http == HttpGetJson(env)
  IN  Fetch(http, IF http.raised THEN Raised
                  ELSE TranslationExtract(http.v, text, target_lang))

\* "for x in value": the items, TypeError on None and on a number; a dict
\* yields its keys and a str its characters, which are strs
Iterate(x) ==
  IF x.t = "list" THEN Returned(x.v)
  ELSE IF x.t = "dict"
       THEN Returned([i \in 1..Cardinality(DOMAIN x.v) |-> JStr("<key>")])
  ELSE IF x.t = "str"
       THEN Returned(IF x.v = "" THEN <<>> ELSE <<JStr("<character>")>>)
  ELSE Raised

\* the inner loop of define.fetch: the entries one meaning adds
RECURSIVE DefinitionEntries(_, _)
DefinitionEntries(part_of_speech, items) ==
  IF items = <<>> THEN Returned(<<>>)
  ELSE LET definition == GetDefault(items[1], "definition", JNull)
           example == GetDefault(items[1], "example", JNull)
           rest == DefinitionEntries(part_of_speech, Tail(items))
       IN  IF definition.raised \/ example.raised \/ rest.raised THEN Raised
           ELSE Returned(<<[part_of_speech |-> part_of_speech,
                            definition |-> definition.v,
                            example |-> example.v]>> \o rest.v)

\* the outer loop of define.fetch
RECURSIVE MeaningEntries(_)
MeaningEntries(meanings) ==
  IF meanings = <<>> THEN Returned(<<>>)
  ELSE LET part_of_speech == GetDefault(meanings[1], "partOfSpeech", JNull)
           listed == IF part_of_speech.raised THEN Raised
                     ELSE GetDefault(meanings[1], "definitions", JList(<<>>))
           items == IF listed.raised THEN Raised ELSE Iterate(listed.v)
           entries == IF items.raised THEN Raised
                      ELSE DefinitionEntries(part_of_speech.v, items.v)
           rest == MeaningEntries(Tail(meanings))
       IN  IF entries.raised \/ rest.raised THEN Raised
           ELSE Returned(entries.v \o rest.v)

\* DictionaryService.define.fetch, the body of its try
DictionaryExtract(data, word) ==
  LET first == First(data)
      listed == IF first.raised THEN Raised
                ELSE GetDefault(first.v, "meanings", JList(<<>>))
      meanings == IF listed.raised THEN Raised ELSE Iterate(listed.v)
      definitions == IF meanings.raised THEN Raised ELSE MeaningEntries(meanings.v)
  IN  IF definitions.raised THEN Raised
      ELSE Returned([k \in {"word", "language", "definitions"} |->
                       CASE k = "word" -> JStr(word)
                         [] k = "language" -> JStr("en")
                         [] k = "definitions" -> JList(definitions.v)])

\* DictionaryService.define
DictionaryService_define(env, word) ==
  LET http == HttpGetJson(env)
  IN  Fetch(http, IF http.raised THEN Raised ELSE DictionaryExtract(http.v, word))

\* GeminiService.chat.  genai is what the provider does: model is "none"
\* (not initialised), "raises" (generate_content_async raises) or
\* "answers"; candidates is None (no such attribute, or None) or <<cs>>
\* with cs the sequence of candidates, each None (no content attribute)
\* or <<content>>, a JSON value
Fallbacks ==
  {"I'm sorry, the AI service is not available right now.",
   "I'm sorry, I couldn't generate a response.",
   "I'm sorry, something went wrong with the AI service."}

\* content.strip() of a candidate's text
Stripped(text) == [text |-> "%s.strip()", arg |-> <<text>>]

GeminiService_chat(genai) ==
  IF genai.model = "none"
  THEN [raised |-> FALSE, v |-> Reply("I'm sorry, the AI service is not available right now."),
        requests |-> 0]
  ELSE IF genai.model = "raises"
  THEN [raised |-> FALSE, v |-> Reply("I'm sorry, something went wrong with the AI service."),
        requests |-> 1]
  ELSE IF genai.candidates = None \/ genai.candidates[1] = <<>>
  THEN [raised |-> FALSE, v |-> Reply("I'm sorry, I couldn't generate a response."),
        requests |-> 1]
  ELSE LET candidate == genai.candidates[1][1]
       IN  IF candidate = None
           THEN [raised |-> FALSE,
                 v |-> Reply("I'm sorry, something went wrong with the AI service."),
                 requests |-> 1]
           ELSE IF candidate[1].t = "str"
           THEN [raised |-> FALSE, v |-> Stripped(candidate[1].v), requests |-> 1]
           ELSE [raised |-> FALSE,
                 v |-> Reply("I'm sorry, I couldn't generate a response."),
                 requests |-> 1]


\* response bodies: the documented one of each provider and ways to
\* differ from it
WeatherFull ==
  [k \in {"main", "weather", "wind", "name", "sys"} |->
     CASE k = "main" -> JDict([m \in {"temp", "humidity"} |-> JNum(20)])
       [] k = "weather" -> JList(<<JDict([d \in {"description"} |-> JStr("clear sky")])>>)
       [] k = "wind" -> JDict([w \in {"speed"} |-> JNum(3)])
       [] k = "name" -> JStr("Paris")
       [] k = "sys" -> JDict([c \in {"country"} |-> JStr("FR")])]

Without(f, keys) == [k \in DOMAIN f \ keys |-> f[k]]

With(f, key, value) == [k \in DOMAIN f \cup {key} |-> IF k = key THEN value ELSE f[k]]

WeatherBodies ==
  { JDict(WeatherFull),
    JDict(Without(WeatherFull, {"name", "sys"})),
    JDict(Without(WeatherFull, {"main"})),
    JDict(With(WeatherFull, "main", JDict([m \in {"temp"} |-> JNum(20)]))),
    JDict(With(WeatherFull, "weather", JList(<<>>))),
    JDict(With(WeatherFull, "weather",
               JList(<<JDict([d \in {"description"} |-> JNull])>>))),
    JDict(With(WeatherFull, "sys", JNull)),
    JDict([k \in {"cod", "message"} |-> JStr("city not found")]),
    JList(<<>>), JNull }

TranslationBodies ==
  { JDict([k \in {"responseData"} |->
             JDict([x \in {"translatedText"} |-> JStr("hola")])]),
    JDict([k \in {"responseData"} |->
             JDict([x \in {"translatedText"} |-> JStr("")])]),
    JDict([k \in {"responseData"} |-> JDict(EmptyDict)]),
    JDict([k \in {"responseData"} |-> JNull]),
    JDict([k \in {"responseData"} |-> JStr("QUOTA EXCEEDED")]),
    JDict(EmptyDict), JList(<<>>), JNull }

Definition == JDict([k \in {"definition", "example"} |-> JStr("a greeting")])

Meaning ==
  [k \in {"partOfSpeech", "definitions"} |->
     IF k = "partOfSpeech" THEN JStr("noun") ELSE JList(<<Definition>>)]

Entry(meanings) == JDict([k \in {"word", "meanings"} |->
                            IF k = "word" THEN JStr("hello") ELSE meanings])

DictionaryBodies ==
  { JList(<<Entry(JList(<<JDict(Meaning)>>))>>),
    JList(<<Entry(JList(<<JDict(Meaning), JDict(Meaning)>>))>>),
    JList(<<Entry(JList(<<JDict(Without(Meaning, {"definitions"}))>>))>>),
    JList(<<Entry(JList(<<JDict(With(Meaning, "definitions", JNull))>>))>>),
    JList(<<Entry(JList(<<JDict(With(Meaning, "definitions", JList(<<JStr("x")>>)))>>))>>),
    JList(<<Entry(JList(<<>>))>>),
    JList(<<Entry(JNull)>>),
    JList(<<JDict([k \in {"word"} |-> JStr("hello")])>>),
    JList(<<>>),
    JDict([k \in {"title"} |-> JStr("No Definitions Found")]),
    JNull }

Envs(bodies) ==
  [import_ok : BOOLEAN, net : {"ok", "error"}, status : {200, 404, 500},
   body : bodies \cup {NotJson}]

Genais ==
  [model : {"none", "raises", "answers"},
   candidates : {None, Some(<<>>), Some(<<None>>), Some(<<Some(JStr("Hi"))>>),
                 Some(<<Some(JNull)>>), Some(<<Some(JStr("Hi")), None>>)}]


-----------------------------------------------------------------------------
(* One call of a service client (SpecClient).                               *)

ClientCalls ==
  {[fn |-> "get_weather", api_key |-> k, env |-> e] :
      k \in BOOLEAN, e \in Envs(WeatherBodies)}
    \cup {[fn |-> "translate", api_key |-> k, env |-> e] :
            k \in BOOLEAN, e \in Envs(TranslationBodies)}
    \cup {[fn |-> "define", api_key |-> FALSE, env |-> e] : e \in Envs(DictionaryBodies)}
    \cup {[fn |-> "chat", api_key |-> TRUE, env |-> g] : g \in Genais}

InitClient ==
  /\ chat_data = EmptyDict
  /\ procs = [p \in Procs |-> IdleProc]
  /\ left = 0
  /\ \E c \in ClientCalls :
       call = [fn |-> c.fn, arg |-> c, returned |-> FALSE,
               ret |-> [raised |-> FALSE, v |-> EmptyDict, requests |-> 0]]

ClientReturn(c) ==
  CASE c.fn = "get_weather" -> WeatherService_get_weather(c.api_key, c.env)
    [] c.fn = "translate" -> TranslationService_translate(c.api_key, c.env, "hi", "es")
    [] c.fn = "define" -> DictionaryService_define(c.env, "hello")
    [] c.fn = "chat" -> GeminiService_chat(c.env)

CallClient ==
  /\ call.fn \in {"get_weather", "translate", "define", "chat"} /\ ~call.returned
  /\ call' = [call EXCEPT !.returned = TRUE, !.ret = ClientReturn(call.arg)]
  /\ UNCHANGED <<chat_data, procs, left>>

SpecClient == InitClient /\ [][CallClient]_vars

-----------------------------------------------------------------------------
(* Properties of the service clients (SpecClient).                          *)

IsObject(x) == x.t = "dict"

HasObject(x, key) == IsObject(x) /\ key \in DOMAIN x.v /\ IsObject(x.v[key])

\* the request fails before a body is decoded
RequestFails(env) ==
  ~env.import_ok \/ env.net # "ok" \/ env.status >= 400 \/ env.body = NotJson

\* a weather body holds what get_weather reads without a default
WeatherComplete(b) ==
  /\ HasObject(b, "main") /\ {"temp", "humidity"} \subseteq DOMAIN b.v["main"].v
  /\ HasObject(b, "wind") /\ "speed" \in DOMAIN b.v["wind"].v
  /\ "weather" \in DOMAIN b.v /\ b.v["weather"].t = "list"
  /\ Len(b.v["weather"].v) > 0
  /\ IsObject(b.v["weather"].v[1]) /\ "description" \in DOMAIN b.v["weather"].v[1].v
  /\ "sys" \in DOMAIN b.v => IsObject(b.v["sys"])

\* a translation body in the documented shape
TranslationComplete(b) ==
  /\ HasObject(b, "responseData")
  /\ "translatedText" \in DOMAIN b.v["responseData"].v
  /\ b.v["responseData"].v["translatedText"].t = "str"

\* a translation body that is an object whose responseData, if any, is
\* an object
TranslationTolerated(b) ==
  IsObject(b) /\ ("responseData" \in DOMAIN b.v => IsObject(b.v["responseData"]))

ClientReturned(fn) == call.fn = fn /\ call.returned

C14_Common ==
  /\ call.returned => ~call.ret.raised
  /\ ClientReturned("get_weather") =>
       /\ ~call.arg.api_key => call.ret.v = EmptyDict /\ call.ret.requests = 0
       /\ (RequestFails(call.arg.env) \/ ~WeatherComplete(call.arg.env.body))
            => call.ret.v = EmptyDict
  /\ (/\ ClientReturned("define")
      /\ \/ RequestFails(call.arg.env)
         \/ call.arg.env.body.t # "list"
         \/ call.arg.env.body.v = <<>>
         \/ ~IsObject(call.arg.env.body.v[1]))
       => call.ret.v = EmptyDict
  /\ ClientReturned("chat") =>
       /\ call.arg.env.model = "none" =>
            call.ret.v = Reply("I'm sorry, the AI service is not available right now.")
       /\ call.arg.env.model = "raises" =>
            call.ret.v = Reply("I'm sorry, something went wrong with the AI service.")
       /\ (\/ call.arg.env.model # "answers"
           \/ call.arg.env.candidates \in {None, Some(<<>>)}
           \/ call.arg.env.candidates[1][1] = None
           \/ call.arg.env.candidates[1][1][1].t # "str")
            => call.ret.v.text \in Fallbacks

-----------------------------------------------------------------------------
(* handlers/ai.py: the commands that call a service client (SpecAi).        *)

\* what a handler's await of a client operation leaves in the record of
\* its calls: the operation, what it returned and the requests it made
ClientCall(op, ret) == PlatformCall(op, 0, ~ret.raised, <<ret>>)

\* service is services.get(...): None, or the configured client
ai_command(upd, cd, service) ==
  IF service = None
  THEN Out(<<Reply("AI service is not configured.")>>, <<>>, FALSE, cd)
  ELSE IF upd.rest = None
  THEN Out(<<Reply("Usage: /ai <your prompt>")>>, <<>>, FALSE, cd)
  ELSE LET ret == GeminiService_chat(service[1].env)
       IN  IF ret.raised
           THEN Out(<<Reply("Failed to generate a response.")>>,
                    <<ClientCall("chat", ret)>>, FALSE, cd)
           ELSE Out(<<ret.v>>, <<ClientCall("chat", ret)>>, FALSE, cd)

DefinitionsReply(word, defs) ==
  [text |-> "<b>%s</b> (%d definitions):", arg |-> <<word, Len(defs)>>,
   items |-> SubSeq(defs, 1, IF Len(defs) < 3 THEN Len(defs) ELSE 3)]

define(upd, cd, service) ==
  IF service = None
  THEN Out(<<Reply("Dictionary service is not configured.")>>, <<>>, FALSE, cd)
  ELSE IF upd.rest = None
  THEN Out(<<Reply("Usage: /define <word>")>>, <<>>, FALSE, cd)
  ELSE LET word == Strip(upd.rest[1])
           ret == DictionaryService_define(service[1].env, word)
           called == <<ClientCall("define", ret)>>
       IN  IF ret.raised THEN Out(<<>>, called, TRUE, cd)
           ELSE IF ret.v = EmptyDict
           THEN Out(<<Reply("No definition found.")>>, called, FALSE, cd)
           ELSE LET defs == IF "definitions" \in DOMAIN ret.v
                            THEN ret.v["definitions"].v ELSE <<>>
                IN  IF defs = <<>>
                    THEN Out(<<Reply("No definition found.")>>, called, FALSE, cd)
                    ELSE Out(<<DefinitionsReply(word, defs)>>, called, FALSE, cd)

\* parts = text.split(None, 2): three parts when there are two arguments
translate(upd, cd, service) ==
  IF service = None
  THEN Out(<<Reply("Translation service is not configured.")>>, <<>>, FALSE, cd)
  ELSE IF Len(upd.args) < 2
  THEN Out(<<Reply("Usage: /translate <lang> <text>")>>, <<>>, FALSE, cd)
  ELSE LET target_lang == upd.args[1]
           text_to_translate == JoinSpace(Tail(upd.args))
           ret == TranslationService_translate(service[1].api_key, service[1].env,
                                               text_to_translate, target_lang)
           called == <<ClientCall("translate", ret)>>
       IN  IF ret.raised THEN Out(<<>>, called, TRUE, cd)
           ELSE IF ret.v = EmptyDict
           THEN Out(<<Reply("Translation failed.")>>, called, FALSE, cd)
           ELSE Out(<<[text |-> "%s", arg |-> <<ret.v["translated"]>>]>>,
                    called, FALSE, cd)

\* weather without the test of the client's result
weather_unchecked(upd, cd, service) ==
  IF service = None
  THEN Out(<<Reply("Weather service is not configured.")>>, <<>>, FALSE, cd)
  ELSE IF upd.rest = None
  THEN Out(<<Reply("Usage: /weather <city>")>>, <<>>, FALSE, cd)
  ELSE LET ret == WeatherService_get_weather(service[1].api_key, service[1].env)
           called == <<ClientCall("get_weather", ret)>>
       IN  IF ret.raised \/ ret.v = EmptyDict THEN Out(<<>>, called, TRUE, cd)
           ELSE IF ret.v["description"].t # "str" THEN Out(<<>>, called, TRUE, cd)
           ELSE Out(<<[text |-> "Weather in %s, %s:\n%s\nTemperature: %s°C\nHumidity: %s%%\nWind speed: %s m/s",
                       arg |-> <<ret.v>>]>>, called, FALSE, cd)

\* data['description'].capitalize() raises when the description is no
\* string
weather(upd, cd, service) ==
  IF service = None
  THEN Out(<<Reply("Weather service is not configured.")>>, <<>>, FALSE, cd)
  ELSE IF upd.rest = None
  THEN Out(<<Reply("Usage: /weather <city>")>>, <<>>, FALSE, cd)
  ELSE LET ret == WeatherService_get_weather(service[1].api_key, service[1].env)
           called == <<ClientCall("get_weather", ret)>>
       IN  IF ret.raised THEN Out(<<>>, called, TRUE, cd)
           ELSE IF ret.v = EmptyDict
           THEN Out(<<Reply("Couldn't retrieve weather data.")>>, called, FALSE, cd)
           ELSE IF ret.v["description"].t # "str" THEN Out(<<>>, called, TRUE, cd)
           ELSE Out(<<[text |-> "Weather in %s, %s:\n%s\nTemperature: %s°C\nHumidity: %s%%\nWind speed: %s m/s",
                       arg |-> <<ret.v>>]>>, called, FALSE, cd)

\* the services mapping handed to register: at most one client is
\* configured, the one of call.arg
Service(fn) == IF call.arg.fn = fn THEN Some(call.arg) ELSE None

Unconfigured == [fn |-> "none", api_key |-> FALSE, env |-> <<>>]

InitAi ==
  /\ chat_data = EmptyDict
  /\ procs = [p \in Procs |-> IdleProc]
  /\ left = 1
  /\ \E c \in ClientCalls \cup {Unconfigured} :
       call = [fn |-> "services", arg |-> c, returned |-> FALSE,
               ret |-> [raised |-> FALSE, v |-> EmptyDict, requests |-> 0]]

AiArgs == {<<>>, << <<"e", "s">> >>, << <<"e", "s">>, <<"h", "i">> >>}

AiUpdates(cmd) == {Update(cmd, 11, "member", None, args) : args \in AiArgs}

OnAi(p) ==
  \E upd \in AiUpdates("ai") : Run(p, upd, ai_command(upd, chat_data, Service("chat")))

OnDefine(p) ==
  \E upd \in AiUpdates("define") : Run(p, upd, define(upd, chat_data, Service("define")))

OnTranslate(p) ==
  \E upd \in AiUpdates("translate") :
     Run(p, upd, translate(upd, chat_data, Service("translate")))

OnWeather(p) ==
  \E upd \in AiUpdates("weather") :
     Run(p, upd, weather(upd, chat_data, Service("get_weather")))

NextAi ==
  \E p \in Procs :
    \/ Fresh(p) /\ OnAi(p)
    \/ Fresh(p) /\ OnDefine(p)
    \/ Fresh(p) /\ OnTranslate(p)
    \/ Fresh(p) /\ OnWeather(p)

SpecAi == InitAi /\ [][NextAi]_vars

-----------------------------------------------------------------------------
(* Properties of the service commands (SpecAi).                             *)

FailureReply ==
  [c \in {"weather", "translate", "define"} |->
     CASE c = "weather" -> "Couldn't retrieve weather data."
       [] c = "translate" -> "Translation failed."
       [] c = "define" -> "No definition found."]

\* slot p holds a finished c whose client call returned v
ClientGave(p, c, v) ==
  /\ Done(p) /\ procs[p].upd.cmd = c
  /\ Len(procs[p].calls) = 1
  /\ procs[p].calls[1].arg[1].v = v

NoDefinitions(p) ==
  /\ Done(p) /\ procs[p].upd.cmd = "define"
  /\ Len(procs[p].calls) = 1
  /\ procs[p].calls[1].arg[1].v # EmptyDict
  /\ procs[p].calls[1].arg[1].v["definitions"] = JList(<<>>)

\* C15: when its client returns the empty mapping, /weather, /translate
\* and /define each send exactly one reply, their failure text, and
\* raise nothing; /define sends the same reply for a result whose
\* definitions list is empty.
C15_FailureReply ==
  \A p \in Procs :
    /\ \A c \in DOMAIN FailureReply :
         ClientGave(p, c, EmptyDict) =>
           /\ procs[p].replies = <<Reply(FailureReply[c])>>
           /\ ~procs[p].raised
    /\ NoDefinitions(p) =>
         /\ procs[p].replies = <<Reply("No definition found.")>>
         /\ ~procs[p].raised

C15_Witness ==
  /\ ClientGave(1, "weather", EmptyDict)
  /\ call.arg.api_key /\ call.arg.env.net = "error"
  /\ procs[1].replies = <<Reply("Couldn't retrieve weather data.")>>

C15_WitnessNoDefinitions ==
  NoDefinitions(1) /\ procs[1].replies = <<Reply("No definition found.")>>

\* C16: a handler of /ai, /define, /translate or /weather calls its
\* client at most once, and a client call makes at most one request; a
\* request that fails is not tried again and the call returns the empty
\* mapping or a fallback at once.
C16_AtMostOneRequest ==
  \A p \in Procs :
    Done(p) =>
      /\ Len(procs[p].calls) <= 1
      /\ \A i \in 1..Len(procs[p].calls) :
           LET ret == procs[p].calls[i].arg[1]
           IN  /\ ret.requests <= 1
               /\ (procs[p].upd.cmd # "ai" /\ RequestFails(call.arg.env))
                    => ret.v = EmptyDict
               /\ (procs[p].upd.cmd = "ai" /\ call.arg.env.model = "raises")
                    => ret.v.text \in Fallbacks

C16_Witness ==
  /\ ClientGave(1, "translate", EmptyDict)
  /\ call.arg.env.import_ok /\ call.arg.env.status = 500
  /\ procs[1].calls[1].arg[1].requests = 1


-----------------------------------------------------------------------------
(* main.py: registration of the handler groups (SpecRegister).              *)

HandlerModules ==
  <<"basic", "moderation", "admin", "group", "info", "toggles", "security",
    "fun", "ai", "utility", "roleplay", "games">>

\* CommandHandler(commands, callback)
H(commands, callback) == [commands |-> commands, callback |-> callback]

\* the add_handler calls of each module's register, in their order
GroupHandlers ==
  [basic |-> <<H({"start"}, "start"),
       H({"help"}, "help_command"),
       H({"ping"}, "ping"),
       H({"rules"}, "rules")>>,
   moderation |-> <<H({"ban"}, "ban"),
       H({"unban"}, "unban"),
       H({"kick"}, "kick"),
       H({"mute"}, "mute"),
       H({"unmute"}, "unmute"),
       H({"warn"}, "warn"),
       H({"unwarn"}, "unwarn"),
       H({"warns", "warnings"}, "warnlist")>>,
   admin |-> <<H({"promote"}, "promote"),
       H({"demote"}, "demote")>>,
   group |-> <<H({"pin"}, "pin"),
       H({"unpin"}, "unpin"),
       H({"purge"}, "purge"),
       H({"setwelcome"}, "setwelcome"),
       H({"welcome"}, "welcome"),
       H({"setrules"}, "setrules"),
       H({"tagall"}, "tagall")>>,
   info |-> <<H({"id"}, "id_cmd"),
       H({"user"}, "user_info"),
       H({"lastactive"}, "lastactive"),
       H({"report"}, "report")>>,
   toggles |-> <<H({"enablebot", "on", "enable"}, "enable"),
       H({"disablebot", "off", "disable"}, "disable"),
       H({"silent"}, "silent"),
       H({"debug"}, "debug")>>,
   security |-> <<H({"lock"}, "lock"),
       H({"unlock"}, "unlock"),
       H({"locks", "showlocks"}, "locks")>>,
   fun |-> <<H({"dice"}, "dice"),
       H({"coin"}, "coin"),
       H({"compliment"}, "compliment"),
       H({"joke"}, "joke"),
       H({"quote"}, "quote"),
       H({"roast"}, "roast"),
       H({"hug"}, "hug"),
       H({"slap"}, "slap"),
       H({"kiss"}, "kiss"),
       H({"fight"}, "fight")>>,
   ai |-> <<H({"ai"}, "ai_command"),
       H({"define"}, "define"),
       H({"translate"}, "translate"),
       H({"weather"}, "weather")>>,
   utility |-> <<H({"calc"}, "calc"),
       H({"time", "utc"}, "time_cmd"),
       H({"note"}, "note"),
       H({"getnote"}, "getnote"),
       H({"whois"}, "whois")>>,
   roleplay |-> <<H({"xp"}, "xp"),
       H({"rank"}, "rank"),
       H({"leaderboard"}, "leaderboard")>>,
   games |-> <<H({"quiz"}, "quiz"),
       H({"answer"}, "answer"),
       H({"balance"}, "balance"),
       H({"give"}, "give"),
       H({"shop"}, "shop")>>]

\* Registered with one more handler in games, under a name utility has
Registered_also_time(mod) ==
  [i \in 1..(Len(GroupHandlers[mod]) + (IF mod = "games" THEN 1 ELSE 0)) |->
     IF i <= Len(GroupHandlers[mod])
     THEN [commands |-> GroupHandlers[mod][i].commands,
           callback |-> GroupHandlers[mod][i].callback, module |-> mod]
     ELSE [commands |-> {"time"}, callback |-> "shop", module |-> mod]]

\* the handlers a module's register adds to the application
Registered(mod) ==
  [i \in 1..Len(GroupHandlers[mod]) |->
     [commands |-> GroupHandlers[mod][i].commands,
      callback |-> GroupHandlers[mod][i].callback, module |-> mod]]

Logged(level, by, mod) == [level |-> level, by |-> by, module |-> mod]

\* module.register(application, services): without python-telegram-bot
\* it warns and returns
register(mod, telegram) ==
  IF ~telegram
  THEN [handlers |-> <<>>, log |-> <<Logged("warning", mod, mod)>>]
  ELSE [handlers |-> Registered(mod), log |-> <<>>]

NotRegistering == [i |-> 1, handlers |-> <<>>, log |-> <<>>, failed |-> {}, raised |-> FALSE]

\* one turn of the loop without its try: a failure leaves the function
RegisterModule_uncaught(st, mod, fails, telegram) ==
  IF fails
  THEN [st EXCEPT !.failed = @ \cup {mod}, !.raised = TRUE]
  ELSE LET r == register(mod, telegram)
       IN  [st EXCEPT !.i = @ + 1,
                      !.handlers = @ \o r.handlers,
                      !.log = @ \o r.log \o <<Logged("info", "main", mod)>>]

\* one turn of the loop of _register_all_handlers: fails says that the
\* import of the module or its register raises
RegisterModule(st, mod, fails, telegram) ==
  IF fails
  THEN [st EXCEPT !.i = @ + 1,
                  !.log = Append(@, Logged("warning", "main", mod)),
                  !.failed = @ \cup {mod}]
  ELSE LET r == register(mod, telegram)
       IN  [st EXCEPT !.i = @ + 1,
                      !.handlers = @ \o r.handlers,
                      !.log = @ \o r.log \o <<Logged("info", "main", mod)>>]

InitRegister ==
  /\ chat_data = EmptyDict
  /\ procs = [p \in Procs |-> IdleProc]
  /\ left = 0
  /\ \E telegram \in BOOLEAN :
       call = [fn |-> "_register_all_handlers", arg |-> [telegram |-> telegram],
               returned |-> FALSE, ret |-> NotRegistering]

RegisterNext ==
  /\ call.fn = "_register_all_handlers" /\ ~call.returned
  /\ \E fails \in BOOLEAN :
       LET st == RegisterModule(call.ret, HandlerModules[call.ret.i], fails,
                                call.arg.telegram)
       IN  call' = [call EXCEPT !.ret = st,
                                !.returned = st.raised \/ st.i > Len(HandlerModules)]
  /\ UNCHANGED <<chat_data, procs, left>>

SpecRegister == InitRegister /\ [][RegisterNext]_vars

-----------------------------------------------------------------------------
(* Properties of the registration (SpecRegister).                           *)

ModuleIndex(mod) == CHOOSE k \in 1..Len(HandlerModules) : HandlerModules[k] = mod

HandlersOf(handlers, mod) ==
  LET FromMod(h) == h.module = mod IN SelectSeq(handlers, FromMod)

Warned(mod) ==
  \E k \in 1..Len(call.ret.log) :
     call.ret.log[k].level = "warning" /\ call.ret.log[k].module = mod

\* C19: whatever groups fail to import or to register, the registration
\* raises nothing, logs a warning for each group it skips and for no
\* other, and registers every other group whole, in the fixed order of
\* the twelve.
C19_PartialAvailability ==
  call.fn = "_register_all_handlers" =>
    LET st == call.ret
        Skipped(mod) == mod \in st.failed \/ ~call.arg.telegram
    IN  /\ ~st.raised
        /\ st.failed \subseteq {HandlerModules[k] : k \in 1..(st.i - 1)}
        /\ \A k \in 1..(st.i - 1) :
             LET mod == HandlerModules[k]
             IN  /\ Skipped(mod) <=> Warned(mod)
                 /\ HandlersOf(st.handlers, mod) =
                      IF Skipped(mod) THEN <<>> ELSE Registered(mod)
        /\ \A j, k \in 1..Len(st.handlers) :
             j < k => ModuleIndex(st.handlers[j].module) <= ModuleIndex(st.handlers[k].module)
        /\ \A k \in 1..Len(st.handlers) :
             ModuleIndex(st.handlers[k].module) < st.i
        /\ call.returned <=> st.i > Len(HandlerModules)

C19_Witness ==
  /\ call.fn = "_register_all_handlers" /\ call.returned /\ call.arg.telegram
  /\ call.ret.failed = {"moderation", "ai"}
  /\ Len(call.ret.handlers) = 47
  /\ call.ret.handlers[47].callback = "shop"


-----------------------------------------------------------------------------
(* Dispatch of an update to the registered handlers (SpecDispatch).         *)

\* _register_all_handlers run to its end when the groups of failing fail
RECURSIVE RegisterFrom(_, _, _)
RegisterFrom(st, failing, telegram) ==
  IF st.raised \/ st.i > Len(HandlerModules) THEN st
  ELSE RegisterFrom(RegisterModule(st, HandlerModules[st.i],
                                   HandlerModules[st.i] \in failing, telegram),
                    failing, telegram)

register_all_handlers(failing, telegram) == RegisterFrom(NotRegistering, failing, telegram)

RECURSIVE Join(_)
Join(chars) == IF chars = <<>> THEN "" ELSE chars[1] \o Join(Tail(chars))

\* the first index >= i of text that holds one of chars (Len(text) + 1 if
\* none)
RECURSIVE FindIn(_, _, _)
FindIn(text, i, chars) ==
  IF i > Len(text) \/ text[i] \in chars THEN i ELSE FindIn(text, i + 1, chars)

BotUsername == <<"t", "g">>

\* the command a message text opens with, as CommandHandler reads it: the
\* text from the slash to the first blank, split at '@', its name lowered
Command(text) ==
  IF text = <<>> \/ text[1] # "/" THEN None
  ELSE LET end == FindIn(text, 2, {" "})
           at == FindIn(text, 2, {"@", " "})
       IN  Some([name |-> Join(Lower(SubSeq(text, 2, at - 1))),
                 mention |-> IF at < end THEN Some(SubSeq(text, at + 1, end - 1))
                             ELSE None])

\* CommandHandler.check_update: the name is one of the handler's and the
\* command is addressed to no other bot
check_update(h, text) ==
  LET cmd == Command(text)
  IN  /\ cmd # None
      /\ cmd[1].name \in h.commands
      /\ cmd[1].mention # None => Lower(cmd[1].mention[1]) = Lower(BotUsername)

\* Application.process_update: the first handler that accepts the update
\* runs, and no other; the result lists the callbacks run
process_update(handlers, text) ==
  LET accepting == {k \in 1..Len(handlers) : check_update(handlers[k], text)}
  IN  IF accepting = {} THEN <<>>
      ELSE <<handlers[CHOOSE k \in accepting : \A j \in accepting : k <= j].callback>>

CommandTexts ==
  { <<"/", "s", "t", "a", "r", "t">>,
    <<"/", "h", "e", "l", "p">>,
    <<"/", "p", "i", "n", "g">>,
    <<"/", "r", "u", "l", "e", "s">>,
    <<"/", "b", "a", "n">>,
    <<"/", "u", "n", "b", "a", "n">>,
    <<"/", "k", "i", "c", "k">>,
    <<"/", "m", "u", "t", "e">>,
    <<"/", "u", "n", "m", "u", "t", "e">>,
    <<"/", "w", "a", "r", "n">>,
    <<"/", "u", "n", "w", "a", "r", "n">>,
    <<"/", "w", "a", "r", "n", "s">>,
    <<"/", "w", "a", "r", "n", "i", "n", "g", "s">>,
    <<"/", "p", "r", "o", "m", "o", "t", "e">>,
    <<"/", "d", "e", "m", "o", "t", "e">>,
    <<"/", "p", "i", "n">>,
    <<"/", "u", "n", "p", "i", "n">>,
    <<"/", "p", "u", "r", "g", "e">>,
    <<"/", "s", "e", "t", "w", "e", "l", "c", "o", "m", "e">>,
    <<"/", "w", "e", "l", "c", "o", "m", "e">>,
    <<"/", "s", "e", "t", "r", "u", "l", "e", "s">>,
    <<"/", "t", "a", "g", "a", "l", "l">>,
    <<"/", "i", "d">>,
    <<"/", "u", "s", "e", "r">>,
    <<"/", "l", "a", "s", "t", "a", "c", "t", "i", "v", "e">>,
    <<"/", "r", "e", "p", "o", "r", "t">>,
    <<"/", "e", "n", "a", "b", "l", "e", "b", "o", "t">>,
    <<"/", "o", "n">>,
    <<"/", "e", "n", "a", "b", "l", "e">>,
    <<"/", "d", "i", "s", "a", "b", "l", "e", "b", "o", "t">>,
    <<"/", "o", "f", "f">>,
    <<"/", "d", "i", "s", "a", "b", "l", "e">>,
    <<"/", "s", "i", "l", "e", "n", "t">>,
    <<"/", "d", "e", "b", "u", "g">>,
    <<"/", "l", "o", "c", "k">>,
    <<"/", "u", "n", "l", "o", "c", "k">>,
    <<"/", "l", "o", "c", "k", "s">>,
    <<"/", "s", "h", "o", "w", "l", "o", "c", "k", "s">>,
    <<"/", "d", "i", "c", "e">>,
    <<"/", "c", "o", "i", "n">>,
    <<"/", "c", "o", "m", "p", "l", "i", "m", "e", "n", "t">>,
    <<"/", "j", "o", "k", "e">>,
    <<"/", "q", "u", "o", "t", "e">>,
    <<"/", "r", "o", "a", "s", "t">>,
    <<"/", "h", "u", "g">>,
    <<"/", "s", "l", "a", "p">>,
    <<"/", "k", "i", "s", "s">>,
    <<"/", "f", "i", "g", "h", "t">>,
    <<"/", "a", "i">>,
    <<"/", "d", "e", "f", "i", "n", "e">>,
    <<"/", "t", "r", "a", "n", "s", "l", "a", "t", "e">>,
    <<"/", "w", "e", "a", "t", "h", "e", "r">>,
    <<"/", "c", "a", "l", "c">>,
    <<"/", "t", "i", "m", "e">>,
    <<"/", "u", "t", "c">>,
    <<"/", "n", "o", "t", "e">>,
    <<"/", "g", "e", "t", "n", "o", "t", "e">>,
    <<"/", "w", "h", "o", "i", "s">>,
    <<"/", "x", "p">>,
    <<"/", "r", "a", "n", "k">>,
    <<"/", "l", "e", "a", "d", "e", "r", "b", "o", "a", "r", "d">>,
    <<"/", "q", "u", "i", "z">>,
    <<"/", "a", "n", "s", "w", "e", "r">>,
    <<"/", "b", "a", "l", "a", "n", "c", "e">>,
    <<"/", "g", "i", "v", "e">>,
    <<"/", "s", "h", "o", "p">>,
    <<"/", "p", "o", "n", "g">>,
    <<"/", "l", "o", "c", "k", "a", "l", "l">>,
    <<"/", "w", "a", "r", "n", "l", "i", "s", "t">>,
    <<"/", "P", "I", "N", "G">>,
    <<"/", "O", "n">>,
    <<"p", "i", "n", "g">>,
    <<"/">>,
    <<>>,
    <<"/", "p", "i", "n", "g", " ", "x">>,
    <<"/", "p", "i", "n", "g", "@", "t", "g">>,
    <<"/", "p", "i", "n", "g", "@", "T", "g", " ", "x">>,
    <<"/", "p", "i", "n", "g", "@", "x">>,
    <<"/", "u", "t", "c", "@", "x">>,
    <<" ", "/", "p", "i", "n", "g">> }

InitDispatch ==
  /\ chat_data = EmptyDict
  /\ procs = [p \in Procs |-> IdleProc]
  /\ left = 1
  /\ \E telegram \in BOOLEAN :
       \E failing \in {{}} \cup {{HandlerModules[k]} : k \in 1..Len(HandlerModules)} :
          call = [fn |-> "application", arg |-> [telegram |-> telegram],
                  returned |-> TRUE, ret |-> register_all_handlers(failing, telegram)]

ProcessUpdate(p) ==
  /\ left > 0
  /\ \E text \in CommandTexts :
       LET ran == process_update(call.ret.handlers, text)
       IN  procs' = [procs EXCEPT ![p] =
                       [IdleProc EXCEPT !.pc = "done", !.upd = [text |-> text],
                                        !.calls = [k \in 1..Len(ran) |->
                                                     PlatformCall(ran[k], 0, TRUE, <<>>)]]]
  /\ left' = left - 1
  /\ UNCHANGED <<chat_data, call>>

NextDispatch == \E p \in Procs : Fresh(p) /\ ProcessUpdate(p)

SpecDispatch == InitDispatch /\ [][NextDispatch]_vars

-----------------------------------------------------------------------------
(* Properties of the dispatch (SpecDispatch).                               *)

Names(handlers) == UNION {handlers[k].commands : k \in 1..Len(handlers)}

Holders(handlers, name) == {k \in 1..Len(handlers) : name \in handlers[k].commands}

Aliases ==
  {{"enablebot", "on", "enable"}, {"disablebot", "off", "disable"},
   {"warns", "warnings"}, {"locks", "showlocks"}, {"time", "utc"}}

\* the command of slot p is meant for this bot
Inbound(p) ==
  LET cmd == Command(procs[p].upd.text)
  IN  /\ cmd # None
      /\ cmd[1].mention # None => Lower(cmd[1].mention[1]) = Lower(BotUsername)

\* C20: no command name is registered by two handlers; the aliases
\* enablebot/on/enable, disablebot/off/disable, warns/warnings,
\* locks/showlocks and time/utc are names of one handler each; an inbound
\* command with a registered name runs exactly the handler of that name,
\* and one with an unregistered name runs none.
C20_OneHandler ==
  call.fn = "application" =>
    LET hs == call.ret.handlers
    IN  /\ \A n \in Names(hs) : Cardinality(Holders(hs, n)) = 1
        /\ \A A \in Aliases : \A a, b \in A : Holders(hs, a) = Holders(hs, b)
        /\ (call.arg.telegram /\ call.ret.failed = {}) =>
             /\ Cardinality(Names(hs)) = 66
             /\ UNION Aliases \subseteq Names(hs)
        /\ \A p \in Procs :
             Done(p) =>
               LET name == Command(procs[p].upd.text)[1].name
               IN  IF Inbound(p) /\ name \in Names(hs)
                   THEN /\ Len(procs[p].calls) = 1
                        /\ \A k \in Holders(hs, name) :
                             procs[p].calls[1].op = hs[k].callback
                   ELSE procs[p].calls = <<>>

C20_Witness ==
  /\ call.fn = "application" /\ call.arg.telegram /\ call.ret.failed = {}
  /\ Done(1)
  /\ procs[1].upd.text = <<"/", "O", "n">>
  /\ Len(procs[1].calls) = 1 /\ procs[1].calls[1].op = "enable"


-----------------------------------------------------------------------------
(* api/index.py: the webhook endpoint (SpecEndpoint) and the webhook        *)
(* deployment from its start (SpecWebhook).                                 *)

\* basic.py ping
ping(upd, cd) == Out(<<Reply("Pong!")>>, <<>>, FALSE, cd)

\* the JSON of an update that carries a message with this text
UpdateBody(text) ==
  JDict([k \in {"update_id", "message"} |->
           IF k = "update_id" THEN JNum(1)
           ELSE JDict([m \in {"message_id", "text"} |->
                         IF m = "message_id" THEN JNum(2) ELSE JStr(text)])])

\* bool(x) of a decoded JSON value
JTruthy(x) ==
  CASE x.t = "null" -> FALSE
    [] x.t = "num" -> x.v # 0
    [] OTHER -> x.v # <<>>

\* Update.de_json(data, bot): None for falsy data, an Update for an
\* object with an update_id; anything else raises
de_json(data) ==
  IF ~JTruthy(data) THEN Returned(None)
  ELSE IF data.t = "dict" /\ "update_id" \in DOMAIN data.v
          /\ ("message" \in DOMAIN data.v => data.v["message"].t = "dict")
  THEN Returned(Some(data))
  ELSE [raised |-> TRUE, v |-> None]

\* the text of an update's message, <<>> when it has none
TextOf(update) ==
  IF "message" \in DOMAIN update.v /\ "text" \in DOMAIN update.v["message"].v
  THEN update.v["message"].v["text"].v ELSE <<>>

Response(status, content) == [status |-> status, content |-> content]

\* what a request leaves: the response, the updates handed to the
\* application, the callbacks run and the replies sent
Handled(response, processed, ran, replies) ==
  [response |-> response, processed |-> processed, ran |-> ran, replies |-> replies]

\* the application runs the callbacks of ran; of these the model holds
\* ping
RepliesOf(ran) == IF ran = <<"ping">> THEN ping(NoUpdate, EmptyDict).replies ELSE <<>>

\* telegram_webhook without the try around request.json()
telegram_webhook_unguarded(handlers, body) ==
  IF body = NotJson
  THEN Handled(Response(500, "Internal Server Error"), <<>>, <<>>, <<>>)
  ELSE LET update == de_json(body)
       IN  IF update.raised
           THEN Handled(Response(500, "Internal Server Error"), <<>>, <<>>, <<>>)
           ELSE LET ran == IF update.v = None THEN <<>>
                           ELSE process_update(handlers, TextOf(update.v[1]))
                IN  Handled(Response(200, "{}"), <<update.v>>, ran, RepliesOf(ran))

\* telegram_webhook: an exception that leaves it is answered by the
\* server with 500
telegram_webhook(handlers, body) ==
  IF body = NotJson
  THEN Handled(Response(400, "Invalid JSON"), <<>>, <<>>, <<>>)
  ELSE LET update == de_json(body)
       IN  IF update.raised
           THEN Handled(Response(500, "Internal Server Error"), <<>>, <<>>, <<>>)
           ELSE LET ran == IF update.v = None THEN <<>>
                           ELSE process_update(handlers, TextOf(update.v[1]))
                IN  Handled(Response(200, "{}"), <<update.v>>, ran, RepliesOf(ran))

PingTexts ==
  { <<"/", "p", "i", "n", "g">>, <<"/", "P", "I", "N", "G">>,
    <<"/", "p", "i", "n", "g", " ", "x">>, <<"/", "p", "i", "n", "g", "@", "t", "g">>,
    <<"/", "p", "i", "n", "g", "@", "x">>, <<"/", "p", "o", "n", "g">>,
    <<"p", "i", "n", "g">>, <<"h", "i">> }

RequestBodies ==
  {NotJson, JNull, JNum(0), JNum(5), JDict(<<>>), JList(<<JNum(1)>>),
   JDict([k \in {"ok"} |-> JNum(1)]), JDict([k \in {"update_id"} |-> JNum(1)])}
    \cup {UpdateBody(text) : text \in PingTexts}

Served(body, handled) ==
  [pc |-> "done", upd |-> [body |-> body], replies |-> handled.replies,
   calls |-> [k \in 1..Len(handled.ran) |-> PlatformCall(handled.ran[k], 0, TRUE, <<>>)],
   raised |-> handled.response.status = 500, response |-> handled.response,
   processed |-> handled.processed]

\* the endpoint with app.state.application set and every group registered
InitEndpoint ==
  /\ chat_data = EmptyDict
  /\ procs = [p \in Procs |-> IdleProc]
  /\ left = MaxUpdates
  /\ call = [fn |-> "application", arg |-> [telegram |-> TRUE], returned |-> TRUE,
             ret |-> register_all_handlers({}, TRUE)]

PostWebhook(p) ==
  /\ left > 0
  /\ call.fn = "application"
  /\ \E body \in RequestBodies :
       procs' = [procs EXCEPT ![p] = Served(body, telegram_webhook(call.ret.handlers, body))]
  /\ left' = left - 1
  /\ UNCHANGED <<chat_data, call>>

NextEndpoint == \E p \in Procs : Fresh(p) /\ PostWebhook(p)

SpecEndpoint == InitEndpoint /\ [][NextEndpoint]_vars

\* the names that bot/main.py binds at module level
MainNames ==
  {"annotations", "asyncio", "Dict", "Any", "BotConfig", "setup_logging",
   "get_logger", "init_db", "GeminiService", "WeatherService",
   "TranslationService", "DictionaryService", "_import_telegram_objects",
   "_register_all_handlers", "run_bot"}

\* import of the package bot: bot/__init__.py runs
\* from .main import main as run_bot
ImportBot == IF "main" \in MainNames THEN "imported" ELSE "ImportError"

\* import of api/index.py: from bot.config import BotConfig imports the
\* package bot first; from bot.main import register_handlers
ImportIndex ==
  IF ImportBot # "imported" THEN ImportBot
  ELSE IF "register_handlers" \notin MainNames THEN "ImportError"
  ELSE "imported"

\* lifespan: the clients are stored under their own keys of bot_data,
\* and the registration reads bot_data.get("services", {})
lifespan ==
  [loaded |-> TRUE, services |-> {},
   handlers |-> register_all_handlers({}, TRUE).handlers]

NotLoaded == [loaded |-> FALSE, services |-> {}, handlers |-> <<>>]

InitWebhook ==
  /\ chat_data = EmptyDict
  /\ procs = [p \in Procs |-> IdleProc]
  /\ left = MaxUpdates
  /\ call = [fn |-> "api.index", arg |-> <<>>, returned |-> FALSE, ret |-> NotLoaded]

\* the server loads api/index.py and runs its lifespan
Startup ==
  /\ call.fn = "api.index" /\ ~call.returned
  /\ call' = [call EXCEPT !.returned = TRUE,
                          !.ret = IF ImportIndex = "imported" THEN lifespan ELSE NotLoaded]
  /\ UNCHANGED <<chat_data, procs, left>>

\* a POST to /api/webhook after the start: without the module the server
\* has no route to answer with
PostDeployed(p) ==
  /\ left > 0
  /\ call.fn = "api.index" /\ call.returned
  /\ \E body \in RequestBodies :
       procs' = [procs EXCEPT ![p] =
                   Served(body,
                          IF call.ret.loaded
                          THEN telegram_webhook(call.ret.handlers, body)
                          ELSE Handled(Response(500, "Internal Server Error"),
                                       <<>>, <<>>, <<>>))]
  /\ left' = left - 1
  /\ UNCHANGED <<chat_data, call>>

NextWebhook ==
  \/ Startup
  \/ \E p \in Procs : Fresh(p) /\ PostDeployed(p)

SpecWebhook == InitWebhook /\ [][NextWebhook]_vars

-----------------------------------------------------------------------------
(* Properties of the webhook.                                               *)

Posted(p, body) == Done(p) /\ procs[p].upd.body = body

WellFormed(body) ==
  /\ body # NotJson /\ body.t = "dict" /\ "update_id" \in DOMAIN body.v
  /\ "message" \in DOMAIN body.v => body.v["message"].t = "dict"

\* C17: a POST whose body is no JSON is answered with 400 and hands no
\* update to the application; a well-formed update is handed to the
\* application once, processed, and answered with 200 and the body {}.
C17_WebhookAnswers ==
  \A p \in Procs :
    Done(p) =>
      /\ procs[p].upd.body = NotJson =>
           /\ procs[p].response = Response(400, "Invalid JSON")
           /\ procs[p].processed = <<>>
           /\ procs[p].calls = <<>> /\ procs[p].replies = <<>>
      /\ WellFormed(procs[p].upd.body) =>
           /\ procs[p].response = Response(200, "{}")
           /\ procs[p].processed = <<Some(procs[p].upd.body)>>
      /\ procs[p].upd.body = UpdateBody(<<"/", "p", "i", "n", "g">>) =>
           procs[p].replies = <<Reply("Pong!")>>

C17_Witness ==
  /\ Posted(1, NotJson) /\ procs[1].response.status = 400
  /\ Posted(2, UpdateBody(<<"/", "p", "i", "n", "g">>))
  /\ procs[2].response = Response(200, "{}")
  /\ procs[2].replies = <<Reply("Pong!")>>

\* C18: in the webhook deployment, after the start, a well-formed /ping
\* update is answered with 200 and yields exactly one reply, 'Pong!'.
C18_PingPong ==
  \A p \in Procs :
    Posted(p, UpdateBody(<<"/", "p", "i", "n", "g">>)) =>
      /\ procs[p].response = Response(200, "{}")
      /\ procs[p].replies = <<Reply("Pong!")>>


-----------------------------------------------------------------------------
(* handlers/utility.py: notes; the commands that take arguments, run on a   *)
(* chat store that is in use (SpecUsage).                                   *)

\* note that fetches its namespaces before it looks at its arguments
note_setdefault_first(upd, cd) ==
  LET cd1 == SetDefault(cd, "notes", EmptyDict)
      cd2 == Put(cd1, "notes", SetDefault(cd1["notes"], upd.user, EmptyDict))
  IN  IF Len(upd.args) < 2
      THEN Out(<<Reply("Usage: /note <title> <content>")>>, <<>>, FALSE, cd2)
      ELSE LET title == Lower(Strip(upd.args[1]))
               content == Strip(JoinSpace(Tail(upd.args)))
           IN  Out(<<[text |-> "Note '%s' saved.", arg |-> <<title>>]>>, <<>>, FALSE,
                   Put(cd2, "notes",
                       Put(cd2["notes"], upd.user, Put(cd2["notes"][upd.user], title, content))))

\* parts = text.split(None, 2): three parts when there are two arguments
note(upd, cd) ==
  IF Len(upd.args) < 2
  THEN Out(<<Reply("Usage: /note <title> <content>")>>, <<>>, FALSE, cd)
  ELSE LET title == Lower(Strip(upd.args[1]))
           content == Strip(JoinSpace(Tail(upd.args)))
           notes == Get(cd, "notes", EmptyDict)
           user_notes == Get(notes, upd.user, EmptyDict)
       IN  Out(<<[text |-> "Note '%s' saved.", arg |-> <<title>>]>>, <<>>, FALSE,
               Put(cd, "notes", Put(notes, upd.user, Put(user_notes, title, content))))

getnote(upd, cd) ==
  IF upd.rest = None
  THEN Out(<<Reply("Usage: /getnote <title>")>>, <<>>, FALSE, cd)
  ELSE LET title == Lower(Strip(upd.rest[1]))
           user_notes == Get(Get(cd, "notes", EmptyDict), upd.user, EmptyDict)
       IN  IF Has(user_notes, title)
           THEN Out(<<[text |-> "%s", arg |-> <<user_notes[title]>>]>>, <<>>, FALSE, cd)
           ELSE Out(<<Reply("Note not found.")>>, <<>>, FALSE, cd)

NoteArgs ==
  {<<>>, << <<"T", "o">> >>, << <<"T", "o">>, <<"d", "o">> >>,
   << <<"t", "o">>, <<"b", "e">>, <<"o", "k">> >>}

OnNote(p) ==
  \E user \in {11, 22}, args \in NoteArgs :
     LET upd == Update("note", user, "member", None, args)
     IN  Run(p, upd, note(upd, chat_data))

OnGetnote(p) ==
  \E user \in {11, 22}, args \in NoteArgs :
     LET upd == Update("getnote", user, "member", None, args)
     IN  Run(p, upd, getnote(upd, chat_data))

\* a chat store after some commands were served: fresh, or with locks, a
\* pending quiz answer, rules, a welcome message and a note in it
StoreInUse ==
  LET admin(cmd, args) == Update(cmd, 11, "administrator", None, args)
      cd1 == lock(admin("lock", << <<"m", "e", "d", "i", "a">> >>), EmptyDict).cd
      cd2 == quiz(admin("quiz", <<>>), cd1, 1).cd
      cd3 == setrules(admin("setrules", << <<"o", "k">> >>), cd2).cd
      cd4 == setwelcome(admin("setwelcome", << <<"h", "i">> >>), cd3).cd
  IN  note(admin("note", << <<"t", "o">>, <<"d", "o">> >>), cd4).cd

InitUsage ==
  /\ chat_data \in {EmptyDict, StoreInUse}
  /\ procs = [p \in Procs |-> IdleProc]
  /\ left = 1
  /\ call = NoCall

NextUsage ==
  \E p \in Procs :
    \/ Fresh(p) /\ OnLock(p)
    \/ Fresh(p) /\ OnUnlock(p)
    \/ Fresh(p) /\ OnGive(p)
    \/ Fresh(p) /\ OnNote(p)
    \/ Fresh(p) /\ OnGetnote(p)
    \/ Fresh(p) /\ OnAnswer(p)
    \/ Fresh(p) /\ OnSetrules(p)
    \/ Fresh(p) /\ OnSetwelcome(p)

SpecUsage == InitUsage /\ [][NextUsage]_vars

-----------------------------------------------------------------------------
(* Properties of the usage errors (SpecUsage).                              *)

UsageReply ==
  [c \in {"lock", "unlock", "give", "note", "getnote", "answer", "setrules", "setwelcome"} |->
     CASE c = "lock" -> "Usage: /lock <type> [type...] (e.g., media links gifs)"
       [] c = "unlock" -> "Usage: /unlock <type> [type...] (e.g., media links gifs)"
       [] c = "give" -> "Usage: /give <user_id> <amount>"
       [] c = "note" -> "Usage: /note <title> <content>"
       [] c = "getnote" -> "Usage: /getnote <title>"
       [] c = "answer" -> "Usage: /answer <your answer>"
       [] c = "setrules" -> "Usage: /setrules The rules of this group."
       [] c = "setwelcome" -> "Usage: /setwelcome Your welcome message here."]

\* the arguments the command needs are missing
ArgumentsMissing(upd) ==
  Len(upd.args) < (IF upd.cmd \in {"give", "note"} THEN 2 ELSE 1)

\* /give with an id or an amount that is no integer, or an amount that is
\* not positive
GiveMalformed(upd) ==
  /\ upd.cmd = "give" /\ Len(upd.args) >= 2
  /\ \/ IntegerOf(upd.args[1]) = None
     \/ IntegerOf(upd.args[2]) = None
     \/ IntegerOf(upd.args[2])[1] <= 0

\* the sender may use the command at all
Allowed(upd) == upd.cmd \in {"lock", "unlock"} => ByAdmin(upd)

C21_Step ==
  \A p \in Procs :
    (procs[p].pc = "idle" /\ procs'[p].pc = "done"
       /\ procs'[p].upd.cmd \in DOMAIN UsageReply /\ Allowed(procs'[p].upd)) =>
      LET pr == procs'[p]
      IN  /\ ArgumentsMissing(pr.upd) =>
               /\ pr.replies = <<Reply(UsageReply[pr.upd.cmd])>>
               /\ chat_data' = chat_data /\ ~pr.raised /\ pr.calls = <<>>
          /\ GiveMalformed(pr.upd) =>
               /\ pr.replies = <<Reply("Invalid usage. Amount must be a positive integer.")>>
               /\ chat_data' = chat_data /\ ~pr.raised /\ pr.calls = <<>>

\* C21: /lock, /unlock, /give, /note, /getnote, /answer, /setrules and
\* /setwelcome sent with missing or malformed arguments send one fixed
\* usage reply and leave the whole chat store as it was.
C21_UsageChangesNothing == [][C21_Step]_vars

C21_Witness ==
  /\ Done(1) /\ procs[1].upd.cmd = "note" /\ Len(procs[1].upd.args) = 1
  /\ procs[1].replies = <<Reply("Usage: /note <title> <content>")>>
  /\ chat_data = StoreInUse



-----------------------------------------------------------------------------
(* A platform call that is rejected.                                       *)

ModerationOps ==
  {"ban_chat_member", "unban_chat_member", "restrict_chat_member",
   "promote_chat_member", "pin_chat_message"}

FailedTexts ==
  {"Failed to ban user. Do I have sufficient rights?",
   "Failed to unban user. Do I have sufficient rights?",
   "Failed to kick user. Do I have sufficient rights?",
   "Failed to mute user. Do I have sufficient rights?",
   "Failed to unmute user. Do I have sufficient rights?",
   "Failed to promote user. Do I have sufficient rights?",
   "Failed to demote user. Do I have sufficient rights?",
   "Failed to pin message. Do I have sufficient rights?"}

\* the platform rejected a moderation call of the invocation pr
PlatformRejected(pr) ==
  \E i \in 1..Len(pr.calls) :
     pr.calls[i].op \in ModerationOps /\ ~pr.calls[i].ok

\* C22: a finished handler whose moderation call the platform rejected
\* (ban, unban, kick, mute, unmute, promote, demote, pin, or the kick
\* inside /warn) has not raised and has sent a failure reply.
C22_FaultSurfaced ==
  \A p \in Procs :
     (Done(p) /\ PlatformRejected(procs[p]))
       => /\ ~procs[p].raised
          /\ \E i \in 1..Len(procs[p].replies) :
                procs[p].replies[i].text \in FailedTexts

\* the part of C22 that the handlers keep: the fault stays in the handler
C22_FaultCaught ==
  \A p \in Procs : (Done(p) /\ PlatformRejected(procs[p])) => ~procs[p].raised


-----------------------------------------------------------------------------
(* The messages one invocation sends.                                      *)

\* reply_text calls and send_message calls that went through
MessagesSent(pr) ==
  Len(pr.replies)
    + Cardinality({i \in 1..Len(pr.calls) :
                     pr.calls[i].op = "send_message" /\ pr.calls[i].ok})

\* the invocation pr is a /warn whose kick went through
KickedByWarn(pr) ==
  /\ pr.upd.cmd = "warn"
  /\ \E i \in 1..Len(pr.calls) :
        pr.calls[i].op = "unban_chat_member" /\ pr.calls[i].ok

-----------------------------------------------------------------------------
(* main.py: run_bot, the polling bootstrap (SpecBoot).                      *)

\* what the database layer does in init_db: sqlalchemy cannot be imported,
\* create_async_engine raises, creating the tables raises, or all returns
DbOutcomes == {"no_sqlalchemy", "engine_raises", "tables_raise", "ok"}

\* utils/database.py init_db: TRUE when it raises
init_db(db) == db # "ok"

NotBooted ==
  [pc |-> "init_db", services |-> {}, handlers |-> <<>>, log |-> <<>>,
   polling |-> FALSE]

\* run_bot up to the end of its first try
run_bot_init_db(st, db) ==
  IF init_db(db)
  THEN [st EXCEPT !.pc = "returned",
                  !.log = Append(@, Logged("error", "main", "database"))]
  ELSE [st EXCEPT !.pc = "services",
                  !.log = Append(@, Logged("info", "main", "database"))]

\* the four service clients
run_bot_services(st) ==
  [st EXCEPT !.pc = "import_telegram",
             !.services = {"gemini", "weather", "translation", "dictionary"}]

\* _import_telegram_objects and Application.builder()...build()
run_bot_import_telegram(st, telegram) ==
  IF telegram THEN [st EXCEPT !.pc = "register"]
  ELSE [st EXCEPT !.pc = "returned",
                  !.log = Append(@, Logged("error", "main", "telegram"))]

\* _register_all_handlers(application)
run_bot_register(st, failing) ==
  LET r == register_all_handlers(failing, TRUE)
  IN  [st EXCEPT !.pc = "start", !.handlers = r.handlers, !.log = @ \o r.log]

\* application.initialize(), start() and run_polling(): started says that
\* initialize and start return
run_bot_start(st, started) ==
  IF started THEN [st EXCEPT !.pc = "polling", !.polling = TRUE]
  ELSE [st EXCEPT !.pc = "returned"]

InitBoot ==
  /\ chat_data = EmptyDict
  /\ procs = [p \in Procs |-> IdleProc]
  /\ left = 1
  /\ \E db \in DbOutcomes, telegram \in BOOLEAN :
       \E failing \in {{}} \cup {{HandlerModules[k]} : k \in 1..Len(HandlerModules)} :
          call = [fn |-> "run_bot",
                  arg |-> [db |-> db, telegram |-> telegram, failing |-> failing],
                  returned |-> FALSE, ret |-> NotBooted]

BootStep(pc, st) ==
  /\ call.fn = "run_bot" /\ call.ret.pc = pc
  /\ call' = [call EXCEPT !.ret = st, !.returned = st.pc = "returned"]
  /\ UNCHANGED <<chat_data, procs, left>>

BootInitDb == BootStep("init_db", run_bot_init_db(call.ret, call.arg.db))

BootServices == BootStep("services", run_bot_services(call.ret))

BootImportTelegram ==
  BootStep("import_telegram", run_bot_import_telegram(call.ret, call.arg.telegram))

BootRegister == BootStep("register", run_bot_register(call.ret, call.arg.failing))

BootStart == \E started \in BOOLEAN : BootStep("start", run_bot_start(call.ret, started))

\* an update received while polling
BootReceive(p) == call.fn = "run_bot" /\ call.ret.polling /\ ProcessUpdate(p)

NextBoot ==
  \/ BootInitDb \/ BootServices \/ BootImportTelegram \/ BootRegister
  \/ BootStart
  \/ \E p \in Procs : Fresh(p) /\ BootReceive(p)

SpecBoot == InitBoot /\ [][NextBoot]_vars

\* C24: whether init_db returns or raises, run_bot goes on from it to
\* construct the service clients (and from there to register the handlers
\* and to poll).
C24_InitDbNoEffect ==
  [][(call.ret.pc = "init_db" /\ call'.ret.pc # "init_db")
       => call'.ret.pc = "services"]_vars

\* a run that polls has initialized the database
C24_PollingNeedsDb == call.ret.polling => call.arg.db = "ok"


-----------------------------------------------------------------------------
(* bot/handlers/utility.py: /calc.  A number is the fraction n/d, with      *)
(* float telling a Python float from an int; the fraction of a float is    *)
(* exact, its rounding to 53 bits and its decimal rendering are left out.  *)
(* d = 0 marks a float the model does not compute (a power with a          *)
(* fractional exponent).                                                   *)

Magnitude(n) == IF n < 0 THEN 0 - n ELSE n

RECURSIVE Gcd(_, _)
Gcd(a, b) == IF b = 0 THEN a ELSE Gcd(b, a % b)

Number(n, d, float) ==
  IF d = 0 THEN [n |-> 0, d |-> 0, float |-> TRUE]
  ELSE LET s == IF (n < 0) # (d < 0) THEN 0 - 1 ELSE 1
           g == Gcd(Magnitude(n), Magnitude(d))
       IN  [n |-> s * (Magnitude(n) \div g), d |-> Magnitude(d) \div g,
            float |-> float]

IsZero(x) == x.n = 0 /\ x.d # 0

\* floor(n / d) for d > 0
FloorOf(n, d) ==
  IF n >= 0 THEN n \div d ELSE 0 - ((Magnitude(n) + d - 1) \div d)

RECURSIVE IntPow(_, _)
IntPow(b, e) == IF e = 0 THEN 1 ELSE b * IntPow(b, e - 1)

Evaluated(v) == [raised |-> FALSE, v |-> v]
EvalRaises == [raised |-> TRUE, v |-> Number(0, 1, FALSE)]

operator_add(x, y) ==
  Evaluated(Number(x.n * y.d + y.n * x.d, x.d * y.d, x.float \/ y.float))

operator_sub(x, y) ==
  Evaluated(Number(x.n * y.d - y.n * x.d, x.d * y.d, x.float \/ y.float))

operator_mul(x, y) == Evaluated(Number(x.n * y.n, x.d * y.d, x.float \/ y.float))

\* ZeroDivisionError for a zero divisor; the quotient is a float
operator_truediv(x, y) ==
  IF IsZero(y) THEN EvalRaises
  ELSE Evaluated(Number(x.n * y.d, x.d * y.n, TRUE))

\* x - y * floor(x / y): the result takes the sign of the divisor
operator_mod(x, y) ==
  IF IsZero(y) THEN EvalRaises
  ELSE IF x.d = 0 \/ y.d = 0 THEN Evaluated(Number(0, 0, TRUE))
  ELSE LET q == Number(x.n * y.d, x.d * y.n, TRUE)
           f == FloorOf(q.n, q.d)
       IN  Evaluated(Number(x.n * y.d - f * y.n * x.d, x.d * y.d,
                            x.float \/ y.float))

\* an int for a non-negative int exponent of an int, ZeroDivisionError for
\* zero to a negative power, a float otherwise
operator_pow(x, y) ==
  IF x.d = 0 \/ y.d # 1 THEN Evaluated(Number(0, 0, TRUE))
  ELSE IF y.n >= 0
       THEN Evaluated(Number(IntPow(x.n, y.n), IntPow(x.d, y.n), x.float \/ y.float))
  ELSE IF IsZero(x) THEN EvalRaises
  ELSE Evaluated(Number(IntPow(x.d, 0 - y.n), IntPow(x.n, 0 - y.n), TRUE))

operator_neg(x) == Evaluated(Number(0 - x.n, x.d, x.float))

\* ast nodes: Constant (Num), BinOp and UnaryOp with USub
AstNum(n) == [k |-> "Num", op |-> "", n |-> n, args |-> <<>>]
AstBinOp(op, lhs, rhs) == [k |-> "BinOp", op |-> op, n |-> 0, args |-> <<lhs, rhs>>]
AstUSub(operand) == [k |-> "UnaryOp", op |-> "-", n |-> 0, args |-> <<operand>>]

\* _eval_expr on a tree of the three nodes: the left operand is evaluated
\* before the right one, and what either raises leaves the function
RECURSIVE eval_expr(_)
eval_expr(node) ==
  IF node.k = "Num" THEN Evaluated(Number(node.n, 1, FALSE))
  ELSE IF node.k = "UnaryOp"
  THEN LET x == eval_expr(node.args[1])
       IN  IF x.raised THEN EvalRaises ELSE operator_neg(x.v)
  ELSE LET x == eval_expr(node.args[1])
           y == eval_expr(node.args[2])
       IN  IF x.raised \/ y.raised THEN EvalRaises
           ELSE CASE node.op = "+" -> operator_add(x.v, y.v)
                  [] node.op = "-" -> operator_sub(x.v, y.v)
                  [] node.op = "*" -> operator_mul(x.v, y.v)
                  [] node.op = "/" -> operator_truediv(x.v, y.v)
                  [] node.op = "%" -> operator_mod(x.v, y.v)
                  [] node.op = "**" -> operator_pow(x.v, y.v)

\* expr.replace(" ", "")
RECURSIVE RemoveSpaces(_)
RemoveSpaces(text) ==
  IF text = <<>> THEN <<>>
  ELSE (IF Head(text) = " " THEN <<>> ELSE <<Head(text)>>) \o RemoveSpaces(Tail(text))

NameChars == {"a", "f", "x"}

\* the end of the run of characters of cls that starts at i
RECURSIVE TokenEnd(_, _, _)
TokenEnd(text, i, cls) ==
  IF i < Len(text) /\ text[i + 1] \in cls THEN TokenEnd(text, i + 1, cls) ELSE i

Token(t, v) == [t |-> t, v |-> v]

\* the tokens of a line as Python's tokenizer cuts them: blanks separate
\* tokens, a run of digits is a number, a run of letters and digits that
\* starts with a letter is a name, "**" and "//" are one operator each
RECURSIVE Tokenize(_, _)
Tokenize(text, i) ==
  IF i > Len(text) THEN <<>>
  ELSE IF text[i] = " " THEN Tokenize(text, i + 1)
  ELSE IF text[i] \in Digits
       THEN LET j == TokenEnd(text, i, Digits)
            IN  <<Token("NUMBER", SubSeq(text, i, j))>> \o Tokenize(text, j + 1)
  ELSE IF text[i] \in NameChars
       THEN LET j == TokenEnd(text, i, NameChars \cup Digits)
            IN  <<Token("NAME", SubSeq(text, i, j))>> \o Tokenize(text, j + 1)
  ELSE IF text[i] \in {"*", "/"} /\ i < Len(text) /\ text[i + 1] = text[i]
       THEN <<Token("OP", <<text[i], text[i]>>)>> \o Tokenize(text, i + 2)
  ELSE <<Token("OP", <<text[i]>>)>> \o Tokenize(text, i + 1)

\* a decimal literal: no leading zero unless every digit is zero
IsDecimalLiteral(ds) ==
  ds[1] # "0" \/ \A k \in 1..Len(ds) : ds[k] = "0"

IsOp(ts, i, ops) == i <= Len(ts) /\ ts[i].t = "OP" /\ Join(ts[i].v) \in ops

NoParse == [ok |-> FALSE, ast |-> AstNum(0), i |-> 0]
ParseOk(ast, i) == [ok |-> TRUE, ast |-> ast, i |-> i]

\* Python's grammar of arithmetic, for the nodes _eval_expr accepts:
\*   sum:    term (('+' | '-') term)*
\*   term:   factor (('*' | '/' | '%') factor)*
\*   factor: '-' factor | power
\*   power:  atom ['**' factor]
\*   atom:   NUMBER | '(' sum ')'
\* A text outside this grammar is a SyntaxError of ast.parse or holds a
\* node _eval_expr rejects with ValueError (a name, a call, unary plus,
\* '//', a comparison, an empty tuple): NoParse stands for both.
RECURSIVE ParseSum(_, _)
RECURSIVE SumRest(_, _, _)
RECURSIVE ParseTerm(_, _)
RECURSIVE TermRest(_, _, _)
RECURSIVE ParseFactor(_, _)
RECURSIVE ParsePower(_, _)
RECURSIVE ParseAtom(_, _)

ParseSum(ts, i) ==
  LET t == ParseTerm(ts, i)
  IN  IF t.ok THEN SumRest(ts, t.ast, t.i) ELSE NoParse

SumRest(ts, lhs, i) ==
  IF IsOp(ts, i, {"+", "-"})
  THEN LET r == ParseTerm(ts, i + 1)
       IN  IF r.ok THEN SumRest(ts, AstBinOp(Join(ts[i].v), lhs, r.ast), r.i)
           ELSE NoParse
  ELSE ParseOk(lhs, i)

ParseTerm(ts, i) ==
  LET f == ParseFactor(ts, i)
  IN  IF f.ok THEN TermRest(ts, f.ast, f.i) ELSE NoParse

TermRest(ts, lhs, i) ==
  IF IsOp(ts, i, {"*", "/", "%"})
  THEN LET r == ParseFactor(ts, i + 1)
       IN  IF r.ok THEN TermRest(ts, AstBinOp(Join(ts[i].v), lhs, r.ast), r.i)
           ELSE NoParse
  ELSE ParseOk(lhs, i)

ParseFactor(ts, i) ==
  IF IsOp(ts, i, {"-"})
  THEN LET f == ParseFactor(ts, i + 1)
       IN  IF f.ok THEN ParseOk(AstUSub(f.ast), f.i) ELSE NoParse
  ELSE ParsePower(ts, i)

ParsePower(ts, i) ==
  LET a == ParseAtom(ts, i)
  IN  IF ~a.ok THEN NoParse
      ELSE IF IsOp(ts, a.i, {"**"})
      THEN LET f == ParseFactor(ts, a.i + 1)
           IN  IF f.ok THEN ParseOk(AstBinOp("**", a.ast, f.ast), f.i) ELSE NoParse
      ELSE a

ParseAtom(ts, i) ==
  IF i > Len(ts) THEN NoParse
  ELSE IF ts[i].t = "NUMBER"
       THEN IF IsDecimalLiteral(ts[i].v)
            THEN ParseOk(AstNum(DecimalValue(ts[i].v)), i + 1)
            ELSE NoParse
  ELSE IF IsOp(ts, i, {"("})
       THEN LET s == ParseSum(ts, i + 1)
            IN  IF s.ok /\ IsOp(ts, s.i, {")"}) THEN ParseOk(s.ast, s.i + 1)
                ELSE NoParse
  ELSE NoParse

\* ast.parse(expr, mode='eval').body followed by _eval_expr: the value, or
\* the exception either of them raises
ParseAndEval(expr) ==
  LET ts == Tokenize(expr, 1)
      s == ParseSum(ts, 1)
  IN  IF s.ok /\ s.i = Len(ts) + 1 THEN eval_expr(s.ast) ELSE EvalRaises

ResultReply(v) == [text |-> "Result: %s", arg |-> <<v>>]

\* calc that parses the text as it was typed
calc_as_typed(upd, cd) ==
  IF upd.rest = None
  THEN Out(<<Reply("Usage: /calc <expression>")>>, <<>>, FALSE, cd)
  ELSE LET r == ParseAndEval(upd.rest[1])
       IN  Out(<<IF r.raised THEN Reply("Invalid expression.") ELSE ResultReply(r.v)>>,
               <<>>, FALSE, cd)

calc(upd, cd) ==
  IF upd.rest = None
  THEN Out(<<Reply("Usage: /calc <expression>")>>, <<>>, FALSE, cd)
  ELSE LET expr == RemoveSpaces(upd.rest[1])
           r == ParseAndEval(expr)
       IN  Out(<<IF r.raised THEN Reply("Invalid expression.") ELSE ResultReply(r.v)>>,
               <<>>, FALSE, cd)


CalcAlphabet == {"0", "1", "2", "+", "-", "*", "/", "%", "(", ")", " ", "a"}

CalcSamples ==
  { <<"2", "+", "3", "*", "4">>,
    <<"2", "*", "*", "3", "*", "*", "2">>,
    <<"2", " ", "*", " ", "*", " ", "3">>,
    <<"(", "1", "+", "2", ")", "*", "3">>,
    <<"2", "*", "*", "-", "1">>,
    <<"-", "7", "%", "2">>,
    <<"1", "/", "/", "2">>,
    <<"f", "(", "1", ")">>,
    <<"1", " ", "+", " ", "2">> }

\* what follows the command: split(None, 1) leaves no blank at its start
CalcTexts ==
  {t \in Texts(CalcAlphabet, MaxLen) : t # <<>> /\ t[1] # " "} \cup CalcSamples

\* text.split(): the runs of non-blank characters
RECURSIVE Words(_, _)
Words(text, i) ==
  IF i > Len(text) THEN <<>>
  ELSE IF text[i] = " " THEN Words(text, i + 1)
  ELSE LET j == TokenEnd(text, i, (CalcAlphabet \cup Digits \cup NameChars) \ {" "})
       IN  <<SubSeq(text, i, j)>> \o Words(text, j + 1)

CalcUpdate(rest) ==
  [Update("calc", 11, "member", None, <<>>)
     EXCEPT !.rest = rest,
            !.args = IF rest = None THEN <<>> ELSE Words(rest[1], 1)]

OnCalc(p) ==
  \E rest \in {None} \cup {Some(t) : t \in CalcTexts} :
     Run(p, CalcUpdate(rest), calc(CalcUpdate(rest), chat_data))

InitCalc ==
  /\ chat_data = EmptyDict
  /\ procs = [p \in Procs |-> IdleProc]
  /\ left = 1
  /\ call = NoCall

NextCalc == OnCalc(1)

SpecCalc == InitCalc /\ [][NextCalc]_vars

\* slot p holds a finished /calc with an argument
Calculated(p) ==
  Done(p) /\ procs[p].upd.cmd = "calc" /\ procs[p].upd.rest # None

\* C25: /calc answers with the value of the typed text when that text is
\* an expression of numeric literals, + - * / % ** and unary minus, read
\* with the standard precedence, and with 'Invalid expression.' for every
\* other text and for a division by zero; it does not raise.
C25_CalcAsStated ==
  \A p \in Procs :
     Calculated(p)
       => /\ ~procs[p].raised
          /\ procs[p].replies = calc_as_typed(procs[p].upd, chat_data).replies

\* 2+3*4 gives 14, and no /calc raises
C25_Precedence ==
  \A p \in Procs :
     Calculated(p)
       => /\ ~procs[p].raised
          /\ procs[p].upd.rest = Some(<<"2", "+", "3", "*", "4">>)
               => procs[p].replies = <<ResultReply(Number(14, 1, FALSE))>>

-----------------------------------------------------------------------------
(* Overlapping /warn handlers (SpecWarn).                                   *)

\* the step in which the /warn of slot p, sent by an administrator with a
\* target, reads the count
WarnActs(p) ==
  /\ procs[p].pc = "get_member"
  /\ procs[p].upd.cmd = "warn"
  /\ procs'[p].pc = "reply_warned"

\* C26 as stated: the step in which a /warn reads the count leaves the
\* store as it is, the write of count + 1 coming after a point where
\* another handler can run.
C26_WriteAfterRead ==
  [][\A p \in Procs : WarnActs(p) => chat_data' = chat_data]_vars

\* C26: the step in which a /warn reads the count of its target also
\* stores that count plus one and announces it, so that no increment of
\* overlapping /warn handlers is lost.
C26_NoLostIncrement ==
  [][\A p \in Procs :
       WarnActs(p) =>
         LET t == GetTargetUser(procs[p].upd)[1]
         IN  /\ WarnCount(chat_data', t) = WarnCount(chat_data, t) + 1
             /\ procs'[p].count = WarnCount(chat_data', t)
             /\ procs'[p].replies = <<Announced(procs'[p].count)>>
             /\ \A id \in {7, 22} \ {t} :
                   WarnCount(chat_data', id) = WarnCount(chat_data, id)]_vars

\* two /warn of the same user are in flight at once, the second having
\* read the count the first wrote
C26_Witness ==
  \E p, q \in Procs :
     /\ p # q
     /\ procs[p].pc = "reply_warned" /\ procs[q].pc = "reply_warned"
     /\ procs[p].target_id = procs[q].target_id
     /\ procs[p].count = 2 /\ procs[q].count = 3
     /\ WarnCount(chat_data, procs[p].target_id[1]) = 3


\* the chat after two /warn of user 7 have run to their end
InitWarned ==
  /\ chat_data = SetWarnCount(EmptyDict, 7, 2)
  /\ procs = [p \in Procs |-> IdleProc]
  /\ left = MaxWarnUpdates
  /\ call = NoCall

SpecWarned == InitWarned /\ [][NextWarn]_vars

WarnsOf(t) ==
  {p \in Procs : procs[p].upd.cmd = "warn" /\ procs[p].target_id = Some(t)}

\* the /warn handlers that banned and unbanned user t
Kicks(t) ==
  {p \in WarnsOf(t) :
     \E i \in 1..Len(procs[p].calls) :
        procs[p].calls[i].op = "unban_chat_member" /\ procs[p].calls[i].ok}

\* the /warn handlers that took the count of user t from 2 to 3
Crossings(t) == {p \in WarnsOf(t) : procs[p].count = WarnLimit}

AllCallsReturned ==
  \A p \in Procs : \A i \in 1..Len(procs[p].calls) : procs[p].calls[i].ok

Quiescent == \A p \in Procs : ~InFlight(p)

\* C27: once every handler has finished, every platform call having
\* returned, the number of kicks of a user equals the number of times the
\* user's count went from 2 to 3.
C27_OneKickPerCrossing ==
  (Quiescent /\ AllCallsReturned)
    => \A t \in {7, 22} : Cardinality(Kicks(t)) = Cardinality(Crossings(t))


\* the step in which the /warn of slot p, its unban having returned,
\* writes 0 for its target
WarnResets(p) ==
  /\ procs[p].pc = "unban"
  /\ procs'[p].pc = "done"
  /\ Len(procs'[p].replies) = 2

\* C28: once a /warn has reset the count of a user to 0, no other /warn
\* that was in flight overwrites with 0 a count of 1 or 2 that a later
\* /warn has recorded.
C28_LaterWarningKept ==
  [][\A p \in Procs :
       WarnResets(p) =>
         LET t == procs[p].target_id[1]
         IN  Kicks(t) \ {p} # {} => WarnCount(chat_data, t) \notin {1, 2}]_vars

-----------------------------------------------------------------------------
(* The bank: /give and /balance in a fresh chat, and give as a function of  *)
(* the bank it finds (SpecGive).                                            *)

BankAmounts == {0, 5, 7}

\* chat stores whose bank holds an amount for each of the two users
BankStores == {Put(EmptyDict, "bank", b) : b \in [{11, 22} -> BankAmounts]}

\* give applied to the /give the chat has just handled and to a bank that
\* holds coins
CallGive ==
  /\ call = NoCall
  /\ Done(1) /\ procs[1].upd.cmd = "give"
  /\ \E cd \in BankStores :
       call' = [fn |-> "give", arg |-> [upd |-> procs[1].upd, cd |-> cd],
                returned |-> TRUE, ret |-> give(procs[1].upd, cd)]
  /\ UNCHANGED <<chat_data, procs, left>>

\* the chat handles its updates, then give is applied once
NextGive ==
  \/ call = NoCall /\ OnGive(1)
  \/ call = NoCall /\ OnBalance(1)
  \/ CallGive

SpecGive == Init /\ [][NextGive]_vars

BankSum(cd) == SumFn(Bank(cd))

Transferred(out) ==
  Len(out.replies) = 1 /\ out.replies[1].text = "Transferred %d coins to %d."

GaveTo(fn) == call.fn = fn /\ call.returned

\* every give that transfers leaves the sum of the balances as it found it
C29_Conservative ==
  (GaveTo("give") /\ Transferred(call.ret))
    => BankSum(call.ret.cd) = BankSum(call.arg.cd)

\* in a chat that starts fresh every balance is 0
C29_Empty == \A id \in DOMAIN Bank(chat_data) : Bank(chat_data)[id] = 0

C29_GiveStep ==
  Gives =>
    LET target == IntegerOf(procs'[1].upd.args[1])
        amount == IntegerOf(procs'[1].upd.args[2])
    IN  (target # None /\ amount # None /\ amount[1] > 0)
          => /\ procs'[1].replies = <<Reply("Insufficient funds.")>>
             /\ C29_Empty'

-----------------------------------------------------------------------------
(* /mute sent as a reply (Spec).                                            *)

\* C30: a /mute of an administrator sent in reply to a user's message,
\* with a duration as its only argument that parses to a positive value,
\* restricts that user for that duration.
C30_ReplyDuration ==
  (/\ Done(1)
   /\ procs[1].upd.cmd = "mute"
   /\ ByAdmin(procs[1].upd)
   /\ procs[1].upd.reply = Authored
   /\ Len(procs[1].upd.args) = 1
   /\ ~procs[1].raised)
    => LET parsed == TokenSum(procs[1].upd.args[1])
       IN  (parsed.days > 0 \/ parsed.seconds > 0)
             => /\ Len(procs[1].calls) = 1
                /\ procs[1].calls[1].op = "restrict_chat_member"
                /\ procs[1].calls[1].id = 22
                /\ procs[1].calls[1].arg = <<parsed.days, parsed.seconds>>

====
